---- MODULE Spec2Model ----
(***************************************************************************)
(* ObserVan: crime-record aggregation (CrimeData) and straight-line route  *)
(* risk scoring (RoutePlanner).                                            *)
(*                                                                         *)
(* Conventions of the model                                                *)
(*  - A JavaScript value whose kind matters (a CSV field, an optional      *)
(*    argument) is a tagged record: Undefined, Null, Str(s), Num(n).       *)
(*  - A JavaScript number is an integer, or one of the reserved values NaN *)
(*    and Infinity.  Coordinates are integers in a fixed unit of angle, so *)
(*    sums, differences and squares are exact.                             *)
(*  - A JavaScript string is a finite sequence of tokens.  A token is an   *)
(*    indivisible piece of text; the key phrases the categorizer looks for *)
(*    are single tokens, string concatenation is sequence concatenation,   *)
(*    startsWith / includes / === are prefix / infix / equality on the     *)
(*    token sequences.                                                     *)
(*  - A JavaScript object used as a map is a function whose DOMAIN is the  *)
(*    set of its own keys; obj[k] of a missing key is Undefined.           *)
(*  - A call of an operation under check is recorded in `call` (its        *)
(*    inputs) and `ret` (how it ended: returned a value, threw, or never   *)
(*    returned).                                                           *)
(***************************************************************************)
EXTENDS Integers, Sequences, FiniteSets, TLC

VARIABLES
    crimeDataByYear,          \* CrimeData.crimeDataByYear: year -> region -> aggregate
    neighborhoodCoordinates,  \* CrimeData.neighborhoodCoordinates, in enumeration order
    lastLayer,                \* RoutePlanner.lastLayer: the polyline on the map, or Null
    loads,                    \* the calls of CrimeData.init under way: where each
                              \* call and each of its loadDataForYear calls stands
    call,                     \* the operation being run and its arguments
    ret,                      \* its outcome
    conversationHistory,      \* GeminiAI.conversationHistory
    sends,                    \* the calls of GeminiAI.sendMessage made so far: where
                              \* each stands
    chatInput,                \* the value of the #chat-input element
    chatMessages,             \* the children of the #chat-messages element, in
                              \* document order
    sendBtn,                  \* the #send-message button
    chats,                    \* the calls of sendChatMessage made so far
    now                       \* Date.now()

chatVars == <<conversationHistory, sends, chatInput, chatMessages, sendBtn, chats, now>>

vars == <<crimeDataByYear, neighborhoodCoordinates, lastLayer, loads, call, ret, chatVars>>

\* the chat as the page loads it: nothing said, nothing typed, the button enabled
ChatIdle ==
    /\ conversationHistory = <<>>
    /\ sends = <<>>
    /\ chatInput = [type |-> "string", val |-> <<>>]
    /\ chatMessages = <<>>
    /\ sendBtn = [disabled |-> FALSE]
    /\ chats = <<>>
    /\ now = 0

----------------------------------------------------------------------------
(* JavaScript values *)

Undefined == [type |-> "undefined"]
Null == [type |-> "null"]
Str(s) == [type |-> "string", val |-> s]
Num(n) == [type |-> "number", val |-> n]

\* !v is false exactly for a non-empty string (of the values a CSV row holds)
Truthy(v) == v.type = "string" /\ v.val # <<>>

\* String.prototype.startsWith / includes on token sequences
startsWith(s, p) == Len(p) <= Len(s) /\ SubSeq(s, 1, Len(p)) = p
includes(s, p) == \E i \in 1..(Len(s) - Len(p) + 1) : SubSeq(s, i, i + Len(p) - 1) = p

\* outcomes of a call
NoCall == [op |-> "none"]
Pending == [status |-> "pending"]
Return(v) == [status |-> "returned", value |-> v]
Throw(e) == [status |-> "threw", error |-> e]
Hang == [status |-> "hang"]

\* F(e), with e evaluated once
Bind(e, F(_)) == CHOOSE r \in {F(v) : v \in {e}} : TRUE

\* all sequences over S of length at most n
SeqUpTo(S, n) == UNION {[1..k -> S] : k \in 0..n}

RECURSIVE SumOver(_, _)
\* the sum of f[k] over the keys k in S
SumOver(f, S) ==
    IF S = {} THEN 0
    ELSE LET k == CHOOSE x \in S : TRUE IN f[k] + SumOver(f, S \ {k})

----------------------------------------------------------------------------
(* CrimeData.categorizeCrime *)

Categories == {"commercial", "residential", "theft", "vehicle", "person", "mischief", "other"}

BreakCommercial == <<"Break and Enter Commercial">>
BreakResidential == <<"Break and Enter Residential">>
TheftOfVehicle == <<"Theft of Vehicle">>
TheftOfBicycle == <<"Theft of Bicycle">>
OtherTheft == <<"Other Theft">>
TheftFromVehicle == <<"Theft from Vehicle">>
Homicide == <<"Homicide">>
Assault == <<"Assault">>
Violence == <<"Violence">>
Mischief == <<"Mischief">>

\* a plausible slip: the Mischief test moved above the person test
categorizeStringMischiefFirst(s) ==
    IF startsWith(s, BreakCommercial) THEN "commercial"
    ELSE IF startsWith(s, BreakResidential) THEN "residential"
    ELSE IF startsWith(s, TheftOfVehicle) \/ startsWith(s, TheftOfBicycle) \/ s = OtherTheft
        THEN "theft"
    ELSE IF startsWith(s, TheftFromVehicle) THEN "vehicle"
    ELSE IF includes(s, Mischief) THEN "mischief"
    ELSE IF startsWith(s, Homicide) \/ startsWith(s, Assault) \/ includes(s, Violence)
        THEN "person"
    ELSE "other"

\* the rule chain on a truthy string
categorizeString(s) ==
    IF startsWith(s, BreakCommercial) THEN "commercial"
    ELSE IF startsWith(s, BreakResidential) THEN "residential"
    ELSE IF startsWith(s, TheftOfVehicle) \/ startsWith(s, TheftOfBicycle) \/ s = OtherTheft
        THEN "theft"
    ELSE IF startsWith(s, TheftFromVehicle) THEN "vehicle"
    ELSE IF startsWith(s, Homicide) \/ startsWith(s, Assault) \/ includes(s, Violence)
        THEN "person"
    ELSE IF includes(s, Mischief) THEN "mischief"
    ELSE "other"

\* a plausible slip: the `if (!vpdType)` guard left out; a method call on
\* undefined throws a TypeError, the empty string falls through every rule
categorizeCrimeNoGuard(vpdType) ==
    IF vpdType.type # "string" THEN Throw("TypeError")
    ELSE Return(categorizeString(vpdType.val))

categorizeCrime(vpdType) ==
    IF ~Truthy(vpdType) THEN Return("other")
    ELSE Return(categorizeString(vpdType.val))

----------------------------------------------------------------------------
(* Inputs of the categorizer check *)

MaxLabelLen == 2

Tokens == {"Break and Enter Commercial", "Break and Enter Residential",
           "Theft of Vehicle", "Theft of Bicycle", "Other Theft",
           "Theft from Vehicle", "Homicide", "Assault", "Violence", "Mischief",
           "Offence"}

LabelInputs == {Undefined} \cup {Str(s) : s \in SeqUpTo(Tokens, MaxLabelLen)}

InitCat ==
    /\ ChatIdle
    /\ crimeDataByYear = <<>>
    /\ neighborhoodCoordinates = <<>>
    /\ lastLayer = Null
    /\ loads = <<>>
    /\ call \in {[op |-> "categorizeCrime", vpdType |-> l] : l \in LabelInputs}
    /\ ret = Pending

CategorizeCrime ==
    /\ call.op = "categorizeCrime"
    /\ ret = Pending
    /\ ret' = categorizeCrime(call.vpdType)
    /\ UNCHANGED <<crimeDataByYear, neighborhoodCoordinates, lastLayer, loads, call, chatVars>>

NextCat == CategorizeCrime

SpecCat == InitCat /\ [][NextCat]_vars

----------------------------------------------------------------------------
(* Categorizer: claims *)

\* The rule list of the design, as (predicate, category) pairs in priority order
RuleMatches(i, s) ==
    CASE i = 1 -> startsWith(s, BreakCommercial)
      [] i = 2 -> startsWith(s, BreakResidential)
      [] i = 3 -> startsWith(s, TheftOfVehicle) \/ startsWith(s, TheftOfBicycle) \/ s = OtherTheft
      [] i = 4 -> startsWith(s, TheftFromVehicle)
      [] i = 5 -> startsWith(s, Homicide) \/ startsWith(s, Assault) \/ includes(s, Violence)
      [] i = 6 -> includes(s, Mischief)

RuleCategory(i) ==
    CASE i = 1 -> "commercial"
      [] i = 2 -> "residential"
      [] i = 3 -> "theft"
      [] i = 4 -> "vehicle"
      [] i = 5 -> "person"
      [] i = 6 -> "mischief"

LabelText(v) == IF v.type = "string" THEN v.val ELSE <<>>

CategorizeDone == call.op = "categorizeCrime" /\ ret # Pending

----------------------------------------------------------------------------
(* CrimeData.processData *)

\* obj[k] of a JavaScript object
Get(obj, k) == IF k \in DOMAIN obj THEN obj[k] ELSE Undefined

\* the object literal a region starts with
NewAggregate ==
    [k \in {"all"} \cup Categories |-> 0]

\* obj with key k set to v (the key is created when missing)
Put(obj, k, v) == [x \in DOMAIN obj \cup {k} |-> IF x = k THEN v ELSE obj[x]]

\* a plausible slip: the "NULL" sentinel is not tested
skipRecordNoSentinel(neighborhood) == ~Truthy(neighborhood)

\* if (!neighborhood || neighborhood === "NULL") continue;
skipRecord(neighborhood) == ~Truthy(neighborhood) \/ neighborhood = Str(<<"NULL">>)

\* a plausible slip: `all` is counted only in the branch of an unrecognized type
countRecordAllInElse(agg, type) ==
    [agg EXCEPT ![type] = @ + 1]

\* data[neighborhood].all++; data[neighborhood][type]++ (type is one of the
\* seven category names, hence truthy and a key of the aggregate)
countRecord(agg, type) ==
    [agg EXCEPT !["all"] = @ + 1, ![type] = @ + 1]

\* one iteration of the loop over the records: acc is the outcome so far,
\* [status |-> "ok", data |-> ...] or a thrown error, which ends the loop
processRecord(acc, record) ==
    IF acc.status # "ok" THEN acc
    ELSE
        LET data == acc.data
            neighborhood == Get(record, "NEIGHBOURHOOD")
        IN IF skipRecord(neighborhood) THEN acc
           ELSE
               LET name == neighborhood.val
                   agg == IF name \in DOMAIN data THEN data[name] ELSE NewAggregate
                   type == categorizeCrime(Get(record, "TYPE"))
               IN IF type.status # "returned" THEN type
                  ELSE [status |-> "ok", data |-> Put(data, name, countRecord(agg, type.value))]

RECURSIVE processRecords(_, _)
processRecords(acc, records) ==
    IF records = <<>> THEN acc
    ELSE processRecords(processRecord(acc, Head(records)), Tail(records))

\* the aggregate processData builds from a batch: const data = {}; for (...) {...}
aggregateOf(records) == processRecords([status |-> "ok", data |-> <<>>], records)

\* a plausible slip: `const data = this.crimeDataByYear[String(year)] || {}`,
\* so a batch is counted on top of what the period held
processDataAccumulate(store, year, records) ==
    LET prior == IF year \in DOMAIN store THEN store[year] ELSE <<>>
        built == processRecords([status |-> "ok", data |-> prior], records)
    IN IF built.status = "ok"
       THEN [ret |-> Return(Undefined), store |-> Put(store, year, built.data)]
       ELSE [ret |-> built, store |-> store]

\* a plausible slip: the batch's regions written into the period's existing
\* object, so regions of an earlier batch stay
processDataMerge(store, year, records) ==
    LET built == aggregateOf(records)
        prior == IF year \in DOMAIN store THEN store[year] ELSE <<>>
        merged == [nb \in DOMAIN prior \cup DOMAIN built.data |->
                      IF nb \in DOMAIN built.data THEN built.data[nb] ELSE prior[nb]]
    IN IF built.status = "ok"
       THEN [ret |-> Return(Undefined), store |-> Put(store, year, merged)]
       ELSE [ret |-> built, store |-> store]

\* processData(year, records) on the store: its outcome and the store after it
processData(store, year, records) ==
    LET built == aggregateOf(records)
    IN IF built.status = "ok"
       THEN [ret |-> Return(Undefined), store |-> Put(store, year, built.data)]
       ELSE [ret |-> built, store |-> store]

----------------------------------------------------------------------------
(* Inputs of the aggregation check *)

MaxRecords == 2

Years == {"2024", "2025"}

NameInputs == {Undefined, Str(<<>>), Str(<<"NULL">>), Str(<<"A">>), Str(<<"B">>)}

TypeInputs == {Undefined, Str(OtherTheft), Str(Homicide), Str(Mischief)}

RecordInputs == {[NEIGHBOURHOOD |-> n, TYPE |-> t] : n \in NameInputs, t \in TypeInputs}

BatchInputs == SeqUpTo(RecordInputs, MaxRecords)

Rec(n, t) == [NEIGHBOURHOOD |-> Str(<<n>>), TYPE |-> Str(t)]

\* records of region A that carry the HOUR column: a valid hour, an hour out
\* of range, no hour
HourInputsOfRecords == {Num(10), Num(24), Undefined}

HourRecordInputs ==
    {[NEIGHBOURHOOD |-> Str(<<"A">>), TYPE |-> Str(OtherTheft), HOUR |-> h] :
        h \in HourInputsOfRecords}

HourBatchInputs == SeqUpTo(HourRecordInputs, MaxRecords) \ {<<>>}

\* stores an earlier load leaves behind: nothing, or one period already built
PriorStores ==
    {<<>>,
     processData(<<>>, "2024", <<Rec("A", OtherTheft), Rec("B", Mischief)>>).store}

InitAgg ==
    /\ ChatIdle
    /\ crimeDataByYear \in PriorStores
    /\ neighborhoodCoordinates = <<>>
    /\ lastLayer = Null
    /\ loads = <<>>
    /\ call \in {[op |-> "processData", year |-> y, records |-> b] :
                    y \in Years, b \in BatchInputs \cup HourBatchInputs}
    /\ ret = Pending

ProcessData ==
    /\ call.op = "processData"
    /\ ret = Pending
    /\ LET out == processData(crimeDataByYear, call.year, call.records)
       IN /\ ret' = out.ret
          /\ crimeDataByYear' = out.store
    /\ UNCHANGED <<neighborhoodCoordinates, lastLayer, loads, call, chatVars>>

NextAgg == ProcessData

SpecAgg == InitAgg /\ [][NextAgg]_vars

----------------------------------------------------------------------------
(* Aggregation: claims *)

ProcessDataDone == call.op = "processData" /\ ret # Pending

\* a record the aggregation accepts: its region name is a non-empty string
\* other than the sentinel "NULL"
ValidRegion(record) ==
    LET n == record.NEIGHBOURHOOD
    IN n.type = "string" /\ n.val # <<>> /\ n.val # <<"NULL">>

\* the counters of region `name` after the first k records of the batch
CountersAfter(records, k, name) ==
    LET data == aggregateOf(SubSeq(records, 1, k)).data
    IN IF name \in DOMAIN data THEN data[name] ELSE NewAggregate

\* C1: in every region aggregate of the store `all` is the sum of the seven
\* category counters, and each accepted record of a batch adds exactly 1 to
\* `all` and exactly 1 to exactly one category counter of its region.
C1_CategoriesPartitionAll ==
    /\ \A y \in DOMAIN crimeDataByYear : \A r \in DOMAIN crimeDataByYear[y] :
           crimeDataByYear[y][r]["all"] = SumOver(crimeDataByYear[y][r], Categories)
    /\ ProcessDataDone =>
           \A k \in 1..Len(call.records) :
               ValidRegion(call.records[k]) =>
                   LET name == call.records[k].NEIGHBOURHOOD.val
                       before == CountersAfter(call.records, k - 1, name)
                       after == CountersAfter(call.records, k, name)
                   IN /\ after["all"] = before["all"] + 1
                      /\ \E c \in Categories :
                            /\ after[c] = before[c] + 1
                            /\ \A d \in Categories \ {c} : after[d] = before[d]

\* two records of one region in different categories were aggregated
C1_Witness ==
    /\ ProcessDataDone
    /\ call.records = <<Rec("A", OtherTheft), Rec("A", Homicide)>>
    /\ crimeDataByYear[call.year][<<"A">>]["all"] = 2
    /\ crimeDataByYear[call.year][<<"A">>]["theft"] = 1
    /\ crimeDataByYear[call.year][<<"A">>]["person"] = 1

\* C4: a record whose region name is missing, empty or "NULL" is skipped:
\* processData returns, the period's aggregate is the one the batch without
\* those records gives, and its regions are exactly the valid names of the batch.
C4_InvalidRegionSkipped ==
    ProcessDataDone =>
        LET kept == SelectSeq(call.records, ValidRegion)
        IN /\ ret.status = "returned"
           /\ crimeDataByYear[call.year] = aggregateOf(kept).data
           /\ DOMAIN crimeDataByYear[call.year]
                  = {call.records[k].NEIGHBOURHOOD.val :
                        k \in {i \in 1..Len(call.records) : ValidRegion(call.records[i])}}

\* a batch with a "NULL" region followed by a valid record was aggregated
C4_Witness ==
    /\ ProcessDataDone
    /\ call.records = <<[NEIGHBOURHOOD |-> Str(<<"NULL">>), TYPE |-> Str(Mischief)],
                        Rec("B", Mischief)>>
    /\ DOMAIN crimeDataByYear[call.year] = {<<"B">>}
    /\ crimeDataByYear[call.year][<<"B">>]["all"] = 1

----------------------------------------------------------------------------
(* CrimeData.getNeighborhoodData, CrimeData.loadSampleData *)

\* one entry of the embedded sample table, as loadSampleData stores it
sampleAggregate(all, theft, break, vehicle, person) ==
    [k \in {"all", "theft", "break", "vehicle", "person",
            "commercial", "residential", "mischief", "other"} |->
        CASE k = "all" -> all
          [] k = "theft" -> theft
          [] k = "break" -> break
          [] k = "vehicle" -> vehicle
          [] k = "person" -> person
          [] OTHER -> 0]

\* obj[k] || 0 for a counter
CountOrZero(obj, k) == IF k \in DOMAIN obj THEN obj[k] ELSE 0

getNeighborhoodData(store, neighborhoodName, year, crimeType) ==
    IF year \notin DOMAIN store \/ neighborhoodName \notin DOMAIN store[year]
    THEN [k \in {"name", "year", "incidents", "crimeType",
                 "all", "theft", "break", "vehicle", "person"} |->
            CASE k = "name" -> neighborhoodName
              [] k = "year" -> year
              [] k = "crimeType" -> crimeType
              [] OTHER -> 0]
    ELSE
        LET neighborhoodData == store[year][neighborhoodName]
        IN [k \in {"name", "year", "incidents", "crimeType"} \cup DOMAIN neighborhoodData |->
              IF k \in DOMAIN neighborhoodData THEN neighborhoodData[k]
              ELSE CASE k = "name" -> neighborhoodName
                     [] k = "year" -> year
                     [] k = "crimeType" -> crimeType
                     [] k = "incidents" -> CountOrZero(neighborhoodData, crimeType)]

----------------------------------------------------------------------------
(* RoutePlanner.sumIncidentsForNeighborhood *)

\* IEEE NaN and Infinity: reserved values outside the range of every finite
\* number of the model.  Arithmetic on NaN gives NaN, every comparison with
\* NaN (=== included) is false.
NaN == -1073741824
Infinity == 1073741824

HoursPerDay == 24

\* a + b, and a % n with the sign of the dividend, as JavaScript computes them
JsAdd(a, b) == IF a = NaN \/ b = NaN THEN NaN ELSE a + b
JsRem(a, n) == IF a = NaN THEN NaN ELSE IF a >= 0 THEN a % n ELSE 0 - ((0 - a) % n)
StrictEq(a, b) == a # NaN /\ b # NaN /\ a = b

\* x == null
IsNullish(v) == v.type \in {"null", "undefined"}

\* a plausible slip: a step of two hours
nextHourSkipsOne(h) == JsRem(JsAdd(h, 2), HoursPerDay)

\* h = (h + 1) % 24
nextHour(h) == JsRem(JsAdd(h, 1), HoursPerDay)

\* a plausible slip: the end test made before the slot is added (endHour excluded)
RECURSIVE hourWalkEndExclusive(_, _, _, _, _)
hourWalkEndExclusive(hourCounts, h, endHour, sum, seen) ==
    IF StrictEq(h, endHour) THEN Return(sum)
    ELSE IF h \in seen THEN Hang
    ELSE hourWalkEndExclusive(hourCounts, nextHour(h), endHour,
                              sum + CountOrZero(hourCounts, h), seen \cup {h})

\* the while (true) loop, entered with hour h and the sum so far.  `seen` are
\* the hours already visited without reaching endHour: h alone decides what the
\* loop does next, so coming back to a visited hour means it never ends.
RECURSIVE hourWalk(_, _, _, _, _)
hourWalk(hourCounts, h, endHour, sum, seen) ==
    LET sum2 == sum + CountOrZero(hourCounts, h)
    IN IF StrictEq(h, endHour) THEN Return(sum2)
       ELSE IF h \in seen THEN Hang
       ELSE hourWalk(hourCounts, nextHour(h), endHour, sum2, seen \cup {h})

\* the hours the while (true) loop visits, in order, when entered with hour
\* h; Hang when it comes back to an hour it has visited
RECURSIVE hoursVisited(_, _, _)
hoursVisited(h, endHour, visited) ==
    IF StrictEq(h, endHour) THEN Return(Append(visited, h))
    ELSE IF \E k \in 1..Len(visited) : visited[k] = h THEN Hang
    ELSE hoursVisited(nextHour(h), endHour, Append(visited, h))

\* a plausible slip: the hourCounts guard placed after the no-window return
sumIncidentsGuardAfter(store, nb, year, crimeType, startHour, endHour) ==
    LET nd == getNeighborhoodData(store, nb, year, crimeType)
    IN IF IsNullish(startHour) \/ IsNullish(endHour) THEN Return(nd["incidents"])
       ELSE IF "hourCounts" \notin DOMAIN nd THEN Return(0)
       ELSE hourWalk(nd["hourCounts"], startHour.val, endHour.val, 0, {})

sumIncidentsForNeighborhood(store, nb, year, crimeType, startHour, endHour) ==
    LET nd == getNeighborhoodData(store, nb, year, crimeType)
    IN IF "hourCounts" \notin DOMAIN nd THEN Return(0)
       ELSE IF IsNullish(startHour) \/ IsNullish(endHour) THEN Return(nd["incidents"])
       ELSE hourWalk(nd["hourCounts"], startHour.val, endHour.val, 0, {})

----------------------------------------------------------------------------
(* Inputs of the hour-window check *)

MaxHourCount == 2

\* hours the bounded histograms populate: midnight, the last hour, midday
HistHours == {0, 12, 23}

\* the histogram of the design's wrap-around example
ExampleHist == [h \in {22, 23, 0, 1, 2, 3, 12} |-> IF h = 12 THEN 5 ELSE 1]

HistInputs == {ExampleHist} \cup UNION {[H -> 1..MaxHourCount] : H \in SUBSET HistHours}

\* a region aggregate that carries the hour histogram hc (RegionAggregate of
\* the design: the counters and hourCounts): every record with an hour was
\* an "Other Theft", one more record had no hour
withHourCounts(hc) ==
    LET n == SumOver(hc, DOMAIN hc)
        counts == [NewAggregate EXCEPT !["all"] = n + 1, !["theft"] = n, !["other"] = 1]
    IN [k \in DOMAIN counts \cup {"hourCounts"} |->
          IF k = "hourCounts" THEN hc ELSE counts[k]]

\* aggregates of region A: built by processData, taken from the sample table
\* ('Musqueam'), or carrying an hour histogram
SumAggregates ==
    {aggregateOf(<<Rec("A", OtherTheft), Rec("A", Homicide)>>).data[<<"A">>],
     sampleAggregate(45, 22, 8, 12, 3)}
    \cup {withHourCounts(hc) : hc \in HistInputs}

SumStores == {Put(<<>>, "2024", Put(<<>>, <<"A">>, agg)) : agg \in SumAggregates}

\* hour arguments: none, or an integer from just below 0 to just above 23
HourInputs == {Null} \cup {Num(h) : h \in (0 - 1)..HoursPerDay}

\* (region, period) pairs: data exist, region unknown, period unknown
TargetInputs == {<<<<"A">>, "2024">>, <<<<"Z">>, "2024">>, <<<<"A">>, "1999">>}

CrimeTypeInputs == {"all", "theft", "person", "arson"}

InitSum ==
    /\ ChatIdle
    /\ crimeDataByYear \in SumStores
    /\ neighborhoodCoordinates = <<>>
    /\ lastLayer = Null
    /\ loads = <<>>
    /\ call \in {[op |-> "sumIncidentsForNeighborhood", nb |-> t[1], year |-> t[2],
                  crimeType |-> c, startHour |-> s, endHour |-> e] :
                    t \in TargetInputs, c \in CrimeTypeInputs,
                    s \in HourInputs, e \in HourInputs}
    /\ ret = Pending

SumIncidentsForNeighborhood ==
    /\ call.op = "sumIncidentsForNeighborhood"
    /\ ret = Pending
    /\ ret' = sumIncidentsForNeighborhood(crimeDataByYear, call.nb, call.year,
                                          call.crimeType, call.startHour, call.endHour)
    /\ UNCHANGED <<crimeDataByYear, neighborhoodCoordinates, lastLayer, loads, call, chatVars>>

NextSum == SumIncidentsForNeighborhood

SpecSum == InitSum /\ [][NextSum]_vars

----------------------------------------------------------------------------
(* Hour window: claims *)

SumDone == call.op = "sumIncidentsForNeighborhood" /\ ret # Pending

\* the aggregate the call looks up; <<>> when the period or the region is unknown
CalledAggregate ==
    IF call.year \in DOMAIN crimeDataByYear /\ call.nb \in DOMAIN crimeDataByYear[call.year]
    THEN crimeDataByYear[call.year][call.nb]
    ELSE <<>>

\* its hour histogram; empty when it carries none
CalledHist ==
    IF "hourCounts" \in DOMAIN CalledAggregate THEN CalledAggregate["hourCounts"] ELSE <<>>

InRangeHour(v) == v.type = "number" /\ v.val \in 0..(HoursPerDay - 1)

\* the hours s, s+1, ..., e taken modulo 24
WindowHours(s, e) == IF s <= e THEN s..e ELSE (s..(HoursPerDay - 1)) \cup (0..e)

\* C5: with startHour and endHour in 0..23 the call returns the sum of the
\* histogram slots of the hours startHour..endHour modulo 24, each once, both
\* ends included; window (22,3) over the example histogram gives 6.
C5_HourWindowWraps ==
    (SumDone /\ InRangeHour(call.startHour) /\ InRangeHour(call.endHour)) =>
        LET hours == WindowHours(call.startHour.val, call.endHour.val)
            slots == [h \in hours |-> CountOrZero(CalledHist, h)]
        IN /\ ret = Return(SumOver(slots, hours))
           /\ (CalledHist = ExampleHist /\ call.startHour.val = 22 /\ call.endHour.val = 3)
                  => ret = Return(6)

\* window (22,3) over the example histogram was summed
C5_Witness ==
    /\ SumDone
    /\ CalledHist = ExampleHist
    /\ call.startHour = Num(22) /\ call.endHour = Num(3)
    /\ ret = Return(6)

\* C6: with no hour window the count of a region is its total for the period
\* and category filter, whether or not its aggregate carries an hour histogram.
C6_NoWindowUsesTotal ==
    (SumDone /\ IsNullish(call.startHour) /\ IsNullish(call.endHour)) =>
        ret = Return(CountOrZero(CalledAggregate, call.crimeType))

----------------------------------------------------------------------------
(* RoutePlanner.getNearestNeighborhood *)

JsSub(a, b) == IF a = NaN \/ b = NaN THEN NaN ELSE a - b
JsMul(a, b) == IF a = NaN \/ b = NaN THEN NaN ELSE a * b
JsLt(a, b) == a # NaN /\ b # NaN /\ a < b
JsLe(a, b) == a # NaN /\ b # NaN /\ a <= b

\* (ny - point.lat) * (ny - point.lat) + (nx - point.lng) * (nx - point.lng)
squaredDistance(entry, point) ==
    JsAdd(JsMul(JsSub(entry.lat, point.lat), JsSub(entry.lat, point.lat)),
          JsMul(JsSub(entry.lng, point.lng), JsSub(entry.lng, point.lng)))

\* a plausible slip: d <= bestDist, so the last of several nearest regions wins
closerOrEqual(d, bestDist) == JsLe(d, bestDist)

\* if (d < bestDist)
closer(d, bestDist) == JsLt(d, bestDist)

\* the for ... in loop over the table from entry i on; best is Null or Str(name)
RECURSIVE nearestScan(_, _, _, _, _)
nearestScan(table, i, point, best, bestDist) ==
    IF i > Len(table) THEN best
    ELSE LET d == squaredDistance(table[i], point)
         IN IF closer(d, bestDist)
            THEN nearestScan(table, i + 1, point, Str(table[i].name), d)
            ELSE nearestScan(table, i + 1, point, best, bestDist)

getNearestNeighborhood(table, point) == nearestScan(table, 1, point, Null, Infinity)

----------------------------------------------------------------------------
(* Inputs of the nearest-region check *)

MaxRegions == 3
GridMax == 1

\* the names of the table's entries, in enumeration order
RegionNames == <<"A", "B", "C", "D", "E", "F">>

\* the table holding the regions at the given coordinates, in that order
TableOf(coords) ==
    [i \in 1..Len(coords) |->
        [name |-> <<RegionNames[i]>>, lat |-> coords[i][1], lng |-> coords[i][2]]]

GridCoords == (0..GridMax) \X (0..GridMax)

\* the design's example, in units of 0.1: A at (0,0), B at (10,10)
ExampleTable == TableOf(<<<<0, 0>>, <<100, 100>>>>)

TableInputs == {ExampleTable} \cup {TableOf(c) : c \in SeqUpTo(GridCoords, MaxRegions)}

Point(lat, lng) == [lat |-> lat, lng |-> lng]

PointInputs ==
    {Point(1, 1), Point(99, 99)}
    \cup {Point(y, x) : y \in (0..GridMax) \cup {NaN}, x \in (0..GridMax) \cup {NaN}}

InitNear ==
    /\ ChatIdle
    /\ crimeDataByYear = <<>>
    /\ neighborhoodCoordinates \in TableInputs
    /\ lastLayer = Null
    /\ loads = <<>>
    /\ call \in {[op |-> "getNearestNeighborhood", point |-> p] : p \in PointInputs}
    /\ ret = Pending

GetNearestNeighborhood ==
    /\ call.op = "getNearestNeighborhood"
    /\ ret = Pending
    /\ ret' = Return(getNearestNeighborhood(neighborhoodCoordinates, call.point))
    /\ UNCHANGED <<crimeDataByYear, neighborhoodCoordinates, lastLayer, loads, call, chatVars>>

NextNear == GetNearestNeighborhood

SpecNear == InitNear /\ [][NextNear]_vars

----------------------------------------------------------------------------
(* Nearest region: claims *)

NearDone == call.op = "getNearestNeighborhood" /\ ret # Pending

FinitePoint(p) == p.lat # NaN /\ p.lng # NaN

\* exact squared distance of two finite positions
Dist2(entry, p) ==
    (entry.lat - p.lat) * (entry.lat - p.lat) + (entry.lng - p.lng) * (entry.lng - p.lng)

\* C7: for a finite point and a non-empty table the call returns a region at
\* minimal squared distance, the first such region in enumeration order; with
\* the table {A:(0,0), B:(10,10)} it returns A for (0.1,0.1), B for (9.9,9.9).
C7_NearestFirstMinimum ==
    (NearDone /\ FinitePoint(call.point) /\ neighborhoodCoordinates # <<>>) =>
        LET table == neighborhoodCoordinates
            p == call.point
        IN /\ \E i \in 1..Len(table) :
                 /\ ret = Return(Str(table[i].name))
                 /\ \A j \in 1..Len(table) : Dist2(table[i], p) <= Dist2(table[j], p)
                 /\ \A j \in 1..(i - 1) : Dist2(table[j], p) > Dist2(table[i], p)
           /\ (table = ExampleTable /\ p = Point(1, 1)) => ret = Return(Str(<<"A">>))
           /\ (table = ExampleTable /\ p = Point(99, 99)) => ret = Return(Str(<<"B">>))

\* a point at the same distance from two regions got the first of them
C7_Witness ==
    /\ NearDone
    /\ neighborhoodCoordinates = TableOf(<<<<1, 1>>, <<0, 1>>, <<1, 0>>>>)
    /\ call.point = Point(0, 0)
    /\ ret = Return(Str(<<"B">>))

----------------------------------------------------------------------------
(* RoutePlanner.sampleLine, incidentsAlongRoute, scoreToColor *)

DEFAULT_SAMPLES == 40

\* a.lat + (b.lat - a.lat) * t with t = i / samples.  The route inputs are
\* chosen so that the quotient is an integer number of units.
lerp(a, b, i, samples) ==
    IF a = NaN \/ b = NaN THEN NaN ELSE a + ((b - a) * i) \div samples

\* a plausible slip: `i < samples` as the loop's test, so the last point is
\* left out
sampleLineExclusive(a, b, samples) ==
    [k \in 1..samples |->
        [lat |-> lerp(a.lat, b.lat, k - 1, samples),
         lng |-> lerp(a.lng, b.lng, k - 1, samples)]] \o <<>>

sampleLine(a, b, samples) ==
    [k \in 1..(samples + 1) |->
        [lat |-> lerp(a.lat, b.lat, k - 1, samples),
         lng |-> lerp(a.lng, b.lng, k - 1, samples)]] \o <<>>

\* the nearest region of every sample, in the order of the samples
nearestOfSamples(table, samplePoints) ==
    [i \in 1..Len(samplePoints) |-> getNearestNeighborhood(table, samplePoints[i])] \o <<>>

\* a plausible slip: an array in place of the Set, so a region is listed once
\* per sample that falls in it
addsToSeenNoDedupe(near, i) == near[i] # Null /\ near[i].val # <<>>

\* if (nb) seen.add(nb): sample i adds its region unless it has none or an
\* earlier sample added the same one (a Set ignores a repeated value)
addsToSeen(near, i) ==
    /\ near[i] # Null /\ near[i].val # <<>>
    /\ \A j \in 1..(i - 1) : near[j] # near[i]

\* Array.from(seen): the regions in the order in which the samples with the
\* indices `added` put them into the Set
inInsertionOrder(near, added) ==
    [k \in 1..Cardinality(added) |->
        near[CHOOSE i \in added : Cardinality({j \in added : j < i}) = k - 1].val] \o <<>>

\* the first loop of incidentsAlongRoute: the regions nearest to the samples
touchedRegions(table, samplePoints) ==
    Bind(nearestOfSamples(table, samplePoints), LAMBDA near :
        Bind({i \in 1..Len(near) : addsToSeen(near, i)}, LAMBDA added :
            inInsertionOrder(near, added)))

\* one call of the forEach callback: acc is [total, perNb] so far, or Hang once
\* a region's hour loop never ends
sumRegion(store, nb, year, crimeType, startHour, endHour, acc) ==
    IF acc = Hang THEN Hang
    ELSE Bind(sumIncidentsForNeighborhood(store, nb, year, crimeType, startHour, endHour),
              LAMBDA count :
                  IF count = Hang THEN Hang
                  ELSE [total |-> acc.total + count.value,
                        perNb |-> Put(acc.perNb, nb, count.value)])

\* neighborhoods.forEach(...) from the i-th region on
RECURSIVE sumRegions(_, _, _, _, _, _, _, _)
sumRegions(store, neighborhoods, i, year, crimeType, startHour, endHour, acc) ==
    IF i > Len(neighborhoods) THEN acc
    ELSE Bind(sumRegion(store, neighborhoods[i], year, crimeType, startHour, endHour, acc),
              LAMBDA next :
                  sumRegions(store, neighborhoods, i + 1, year, crimeType,
                             startHour, endHour, next))

incidentsAlongRoute(store, table, samplePoints, year, crimeType, startHour, endHour) ==
    Bind(touchedRegions(table, samplePoints), LAMBDA neighborhoods :
        Bind(sumRegions(store, neighborhoods, 1, year, crimeType, startHour, endHour,
                        [total |-> 0, perNb |-> <<>>]),
             LAMBDA sums :
                 IF sums = Hang THEN Hang
                 ELSE Return([total |-> sums.total, neighborhoods |-> neighborhoods,
                              perNb |-> sums.perNb])))

\* a plausible slip: strict comparisons, so a score on a threshold moves up a tier
scoreToColorStrict(score) ==
    IF score < 50 THEN "#2b83ba"
    ELSE IF score < 150 THEN "#ffffbf"
    ELSE IF score < 300 THEN "#fdae61"
    ELSE "#d7191c"

scoreToColor(score) ==
    IF score <= 50 THEN "#2b83ba"
    ELSE IF score <= 150 THEN "#ffffbf"
    ELSE IF score <= 300 THEN "#fdae61"
    ELSE "#d7191c"

----------------------------------------------------------------------------
(* RoutePlanner.planRoute *)

DEFAULT_YEAR == "2025"

\* the alternative is looked for when score > 100
AlternativeThreshold == 100

\* the 0.01 degrees added to the midpoint's latitude, in units of 1/4000 degree
WaypointOffset == 40

\* a plausible slip: Math.floor in place of Math.round
roundDivFloor(total, denom) == total \div denom

\* Math.round(total / denom) for total >= 0, denom >= 1
roundDiv(total, denom) == (2 * total + denom) \div (2 * denom)

\* Math.max(result.neighborhoods.length, 1)
maxOf(a, b) == IF a >= b THEN a ELSE b

\* Array.prototype.sort((a, b) => b.count - a.count) is stable: an entry goes
\* behind every entry whose count is at least its own
RECURSIVE insertByCount(_, _)
insertByCount(sorted, e) ==
    IF sorted = <<>> THEN <<e>>
    ELSE IF Head(sorted).count >= e.count THEN <<Head(sorted)>> \o insertByCount(Tail(sorted), e)
    ELSE <<e>> \o sorted

RECURSIVE sortByCountDesc(_, _)
sortByCountDesc(entries, sorted) ==
    IF entries = <<>> THEN sorted
    ELSE sortByCountDesc(Tail(entries), insertByCount(sorted, Head(entries)))

\* a plausible slip: the sort left out, so the first three touched regions
worstOfUnsorted(result) ==
    SubSeq([i \in 1..Len(result.neighborhoods) |->
               [name |-> result.neighborhoods[i],
                count |-> result.perNb[result.neighborhoods[i]]]] \o <<>>,
           1, IF Len(result.neighborhoods) < 3 THEN Len(result.neighborhoods) ELSE 3)

\* Object.keys(result.perNb).map(...).sort(...).slice(0, 3)
worstOf(result) ==
    Bind(sortByCountDesc([i \in 1..Len(result.neighborhoods) |->
                             [name |-> result.neighborhoods[i],
                              count |-> result.perNb[result.neighborhoods[i]]]] \o <<>>,
                         <<>>),
         LAMBDA sorted : SubSeq(sorted, 1, IF Len(sorted) < 3 THEN Len(sorted) ELSE 3))

\* the detour's waypoint: the midpoint, its latitude shifted by 0.01
waypointOf(start, dest) ==
    [lat |-> IF start.lat = NaN \/ dest.lat = NaN THEN NaN
             ELSE start.lat + (dest.lat - start.lat) \div 2 + WaypointOffset,
     lng |-> IF start.lng = NaN \/ dest.lng = NaN THEN NaN
             ELSE start.lng + (dest.lng - start.lng) \div 2]

\* a plausible slip: <= in place of <, so a detour that is no better is offered
tryWaypointLessOrEqual(store, table, start, dest, scored, waypoint) ==
    Bind(sampleLine(start, waypoint, DEFAULT_SAMPLES)
             \o sampleLine(waypoint, dest, DEFAULT_SAMPLES),
         LAMBDA alt_samples :
             Bind(incidentsAlongRoute(store, table, alt_samples, scored.year,
                                      scored.crimeType, scored.startHour, scored.endHour),
                  LAMBDA alt_res :
                      IF alt_res = Hang THEN Hang
                      ELSE IF alt_res.value.total <= scored.result.total
                      THEN Return(<<[total |-> alt_res.value.total, waypoint |-> waypoint]>>)
                      ELSE Return(<<>>)))

\* the body of `if (score > 100) { ... }`: Return(alternatives) or Hang
tryWaypoint(store, table, start, dest, scored, waypoint) ==
    Bind(sampleLine(start, waypoint, DEFAULT_SAMPLES)
             \o sampleLine(waypoint, dest, DEFAULT_SAMPLES),
         LAMBDA alt_samples :
             Bind(incidentsAlongRoute(store, table, alt_samples, scored.year,
                                      scored.crimeType, scored.startHour, scored.endHour),
                  LAMBDA alt_res :
                      IF alt_res = Hang THEN Hang
                      ELSE IF alt_res.value.total < scored.result.total
                      THEN Return(<<[total |-> alt_res.value.total, waypoint |-> waypoint]>>)
                      ELSE Return(<<>>)))

\* a plausible slip: no gate on the score, every route gets its detour compared
alternativesOfNoGate(store, table, start, dest, scored) ==
    Bind(waypointOf(start, dest), LAMBDA waypoint :
        tryWaypoint(store, table, start, dest, scored, waypoint))

alternativesOf(store, table, start, dest, scored) ==
    IF ~(scored.score > AlternativeThreshold) THEN Return(<<>>)
    ELSE Bind(waypointOf(start, dest), LAMBDA waypoint :
             tryWaypoint(store, table, start, dest, scored, waypoint))

\* opts.k of the options object (a missing key reads as undefined)
HasOpt(opts, k) == k \in DOMAIN opts

\* const year, crimeType, startHour, endHour of planRoute
queryOf(opts) ==
    [year |-> IF HasOpt(opts, "year") /\ opts["year"] # "" THEN opts["year"] ELSE DEFAULT_YEAR,
     crimeType |-> IF HasOpt(opts, "crimeType") /\ opts["crimeType"] # ""
                   THEN opts["crimeType"] ELSE "all",
     startHour |-> IF HasOpt(opts, "startHour") THEN Num(opts["startHour"]) ELSE Null,
     endHour |-> IF HasOpt(opts, "endHour") THEN Num(opts["endHour"]) ELSE Null,
     samples |-> IF HasOpt(opts, "samples") /\ opts["samples"] # 0
                 THEN opts["samples"] ELSE DEFAULT_SAMPLES]

\* the score and the color of a counted route
scored(query, samples, result) ==
    Bind(roundDiv(result.total, maxOf(Len(result.neighborhoods), 1)), LAMBDA score :
        [status |-> "scored", year |-> query.year, crimeType |-> query.crimeType,
         startHour |-> query.startHour, endHour |-> query.endHour, samples |-> samples,
         result |-> result, score |-> score, color |-> scoreToColor(score)])

\* the statements of planRoute up to the color: the samples, the route's
\* counts (or Hang), the score
scoreRoute(store, table, start, dest, opts) ==
    Bind(queryOf(opts), LAMBDA query :
        Bind(sampleLine(start, dest, query.samples), LAMBDA samples :
            Bind(incidentsAlongRoute(store, table, samples, query.year, query.crimeType,
                                     query.startHour, query.endHour),
                 LAMBDA res :
                     IF res = Hang THEN Hang ELSE scored(query, samples, res.value))))

\* a sample the map library is handed that is not a position
HasNaNSample(samples) == \E i \in 1..Len(samples) : samples[i].lat = NaN \/ samples[i].lng = NaN

\* what follows the drawing of the polyline: worst, alternatives, the result
afterDraw(store, table, start, dest, sc, drawn) ==
    Bind(alternativesOf(store, table, start, dest, sc), LAMBDA alternatives :
        IF alternatives = Hang THEN [ret |-> Hang, lastLayer |-> drawn]
        ELSE [ret |-> Return([total |-> sc.result.total,
                              score |-> sc.score,
                              worst |-> worstOf(sc.result),
                              neighborhoods |-> sc.result.neighborhoods,
                              layer |-> drawn,
                              alternatives |-> alternatives.value]),
              lastLayer |-> drawn])

\* planRoute(start, dest, opts).  polylineThrows is the outcome of L.polyline,
\* code of the map library.  Gives [ret, lastLayer] after the call.
planRoute(store, table, layer, start, dest, opts, polylineThrows) ==
    Bind(scoreRoute(store, table, start, dest, opts), LAMBDA sc :
        IF sc = Hang THEN [ret |-> Hang, lastLayer |-> layer]
        ELSE IF polylineThrows THEN [ret |-> Throw("Error"), lastLayer |-> layer]
        ELSE afterDraw(store, table, start, dest, sc, [color |-> sc.color]))

----------------------------------------------------------------------------
(* Inputs of the route check.  Positions are in units of 1/4000 degree;     *)
(* start and destination coordinates are multiples of 80 units, so every   *)
(* sample of a 1-, 2-, 4- or 40-step line and of the detour is a whole     *)
(* number of units.                                                        *)

MaxSamplePoints == 3

\* five regions: A, B and E on the line of latitude 0, C north and D south of
\* the midpoint between A and B
RouteTable == TableOf(<<<<0, 0>>, <<0, 160>>, <<80, 80>>, <<0 - 40, 80>>, <<0, 320>>>>)

RoutePositions == {Point(0, 0), Point(0, 160), Point(160, 80), Point(0, 320)}

\* coordinates that parse to NaN
UnresolvablePositions == {Point(NaN, 0), Point(0, NaN)}

\* a period's aggregates that carry hour histograms, one region after the other
histPeriod(hists) ==
    [nb \in {<<RegionNames[i]>> : i \in 1..Len(hists)} |->
        withHourCounts(hists[CHOOSE i \in 1..Len(hists) : <<RegionNames[i]>> = nb])]

\* stores of the default period: no data, counters only (as processData builds
\* them), and aggregates that carry hour histograms, light and heavy
RouteStores ==
    {<<>>,
     processData(<<>>, DEFAULT_YEAR,
                 <<Rec("A", OtherTheft), Rec("B", Mischief)>>).store,
     Put(<<>>, DEFAULT_YEAR,
         histPeriod(<<ExampleHist, [h \in {12} |-> 2], [h \in {23} |-> 1],
                      [h \in {0} |-> 30]>>)),
     Put(<<>>, DEFAULT_YEAR,
         histPeriod(<<[h \in {12} |-> 119], [h \in {12} |-> 49], [h \in {23} |-> 9],
                      [h \in {0} |-> 399], [h \in {12} |-> 4]>>))}

NoOpts == [k \in {} |-> 0]

\* hour windows of a query: none, wrapping, plain, and bounds outside 0..23
WindowOpts ==
    {NoOpts,
     [startHour |-> 22, endHour |-> 3],
     [startHour |-> 3, endHour |-> 22],
     [startHour |-> 22, endHour |-> 24],
     [startHour |-> 0 - 1, endHour |-> 3],
     [startHour |-> 22]}

OptsInputs ==
    {y @@ c @@ w @@ n :
        y \in {NoOpts, [year |-> "2024"]},
        c \in {NoOpts, [crimeType |-> "theft"]},
        w \in WindowOpts,
        n \in {NoOpts, [samples |-> 2]}}

PlanRouteCalls ==
    {[op |-> "planRoute", start |-> s, dest |-> d, opts |-> o] :
        s \in RoutePositions \cup UnresolvablePositions,
        d \in RoutePositions \cup UnresolvablePositions,
        o \in OptsInputs}

IncidentsAlongRouteCalls ==
    {[op |-> "incidentsAlongRoute", samplePoints |-> pts, year |-> DEFAULT_YEAR,
      crimeType |-> c, startHour |-> w[1], endHour |-> w[2]] :
        pts \in SeqUpTo(RoutePositions \cup {Point(NaN, 0)}, MaxSamplePoints),
        c \in {"all", "theft"},
        w \in {<<Null, Null>>, <<Num(22), Num(3)>>}}

InitRoute ==
    /\ ChatIdle
    /\ crimeDataByYear \in RouteStores
    /\ neighborhoodCoordinates = RouteTable
    /\ lastLayer = Null
    /\ loads = <<>>
    /\ call \in PlanRouteCalls \cup IncidentsAlongRouteCalls
    /\ ret = Pending

IncidentsAlongRoute ==
    /\ call.op = "incidentsAlongRoute"
    /\ ret = Pending
    /\ ret' = incidentsAlongRoute(crimeDataByYear, neighborhoodCoordinates,
                                  call.samplePoints, call.year, call.crimeType,
                                  call.startHour, call.endHour)
    /\ UNCHANGED <<crimeDataByYear, neighborhoodCoordinates, lastLayer, loads, call, chatVars>>

\* L.polyline belongs to the map library, not to the sources: handed a sample
\* that is not a position it may throw or draw; any other line it draws
PlanRoute ==
    /\ call.op = "planRoute"
    /\ ret = Pending
    /\ \E polylineThrows \in BOOLEAN :
          /\ polylineThrows => HasNaNSample(<<call.start, call.dest>>)
          /\ \E out \in {planRoute(crimeDataByYear, neighborhoodCoordinates, lastLayer,
                                   call.start, call.dest, call.opts, polylineThrows)} :
                /\ ret' = out.ret
                /\ lastLayer' = out.lastLayer
    /\ UNCHANGED <<crimeDataByYear, neighborhoodCoordinates, loads, call, chatVars>>

NextRoute == IncidentsAlongRoute \/ PlanRoute

SpecRoute == InitRoute /\ [][NextRoute]_vars

----------------------------------------------------------------------------
(* Properties of the route planner *)

PlanRouteDone == call.op = "planRoute" /\ ret # Pending

IncidentsAlongRouteDone == call.op = "incidentsAlongRoute" /\ ret # Pending

\* the start or the destination of the call has a coordinate that is no number
UnresolvableEndpoint == ~FinitePoint(call.start) \/ ~FinitePoint(call.dest)

\* a bound of the call's hour window lies outside 0..23
HourBoundOutOfRange ==
    /\ HasOpt(call.opts, "startHour") /\ HasOpt(call.opts, "endHour")
    /\ \/ call.opts["startHour"] \notin 0..(HoursPerDay - 1)
       \/ call.opts["endHour"] \notin 0..(HoursPerDay - 1)

\* C8: scoring a route whose start or destination is unresolvable (a NaN
\* coordinate) fails; it does not come back with a normal result (total = 0,
\* score = 0) and it does not stay without an answer.
C8_UnresolvableCoordinateFails ==
    (PlanRouteDone /\ UnresolvableEndpoint) => ret.status = "threw"

\* C9: a route query with an hour bound outside 0..23 is reported to the
\* caller as a failure: the call neither returns a count nor fails to return.
C9_OutOfRangeHourFails ==
    (PlanRouteDone /\ ~UnresolvableEndpoint /\ HourBoundOutOfRange) =>
        ret.status = "threw"

\* the regions nearest to the samples of the call, as a set
NearestRegionsOfCall ==
    {r.val : r \in {getNearestNeighborhood(neighborhoodCoordinates, call.samplePoints[i]) :
                       i \in 1..Len(call.samplePoints)} \ {Null}}

\* C10: incidentsAlongRoute lists every region nearest to some sample exactly
\* once, whatever the order of the samples and however many samples fall in
\* the region; perNb holds the count of each listed region and total is the
\* sum of perNb over the listed regions.
C10_DistinctRegionsCountedOnce ==
    IncidentsAlongRouteDone =>
        /\ ret.status = "returned"
        /\ \A i, j \in 1..Len(ret.value.neighborhoods) :
              i # j => ret.value.neighborhoods[i] # ret.value.neighborhoods[j]
        /\ {ret.value.neighborhoods[i] : i \in 1..Len(ret.value.neighborhoods)}
              = NearestRegionsOfCall
        /\ DOMAIN ret.value.perNb = NearestRegionsOfCall
        /\ \A nb \in NearestRegionsOfCall :
              Return(ret.value.perNb[nb]) =
                  sumIncidentsForNeighborhood(crimeDataByYear, nb, call.year, call.crimeType,
                                              call.startHour, call.endHour)
        /\ ret.value.total = SumOver(ret.value.perNb, NearestRegionsOfCall)

\* two samples in region A, one in region B, one that resolves to no region:
\* A is counted once
C10_Witness ==
    /\ IncidentsAlongRouteDone
    /\ call.samplePoints = <<Point(0, 0), Point(0, 0), Point(0, 160)>>
    /\ call.startHour = Null /\ call.crimeType = "all"
    /\ ret.status = "returned"
    /\ ret.value.neighborhoods = << <<"A">>, <<"B">> >>
    /\ ret.value.perNb[<<"A">>] = 12
    /\ ret.value.total = 15

\* C11: the score of every route result is round(total / max(number of
\* distinct touched regions, 1)), a half rounding up: one region with 120
\* incidents scores 120, no region scores 0.
C11_ScoreIsRoundedMean ==
    (PlanRouteDone /\ ret.status = "returned") =>
        LET total == ret.value.total
            n == IF ret.value.neighborhoods = <<>> THEN 1 ELSE Len(ret.value.neighborhoods)
            score == ret.value.score
        IN /\ 2 * n * score - n <= 2 * total
           /\ 2 * total < 2 * n * score + n
           /\ (ret.value.neighborhoods = <<>>) => score = 0
           /\ (n = 1 /\ total = 120) => score = 120

\* a route inside region A alone, which holds 120 incidents
C11_Witness ==
    /\ PlanRouteDone
    /\ call.start = Point(0, 0) /\ call.dest = Point(0, 0)
    /\ ret.status = "returned"
    /\ ret.value.neighborhoods = << <<"A">> >>
    /\ ret.value.total = 120
    /\ ret.value.score = 120

----------------------------------------------------------------------------
(* scoreToColor over every score up to MaxScore, two scores per call *)

MaxScore == 320

InitColor ==
    /\ ChatIdle
    /\ crimeDataByYear = <<>>
    /\ neighborhoodCoordinates = RouteTable
    /\ lastLayer = Null
    /\ loads = <<>>
    /\ call \in {[op |-> "scoreToColor", lower |-> a, higher |-> b] :
                    a \in 0..MaxScore, b \in 0..MaxScore}
    /\ ret = Pending

ScoreToColor ==
    /\ call.op = "scoreToColor"
    /\ ret = Pending
    /\ ret' = Return([lower |-> scoreToColor(call.lower), higher |-> scoreToColor(call.higher)])
    /\ UNCHANGED <<crimeDataByYear, neighborhoodCoordinates, lastLayer, loads, call, chatVars>>

NextColor == ScoreToColor

SpecColor == InitColor /\ [][NextColor]_vars

ScoreToColorDone == call.op = "scoreToColor" /\ ret # Pending

\* the risk tier a color stands for, 1 the lowest; 0 for anything else
TierOf(color) ==
    CASE color = "#2b83ba" -> 1
      [] color = "#ffffbf" -> 2
      [] color = "#fdae61" -> 3
      [] color = "#d7191c" -> 4
      [] OTHER -> 0

\* the tier the thresholds 50, 150, 300 give a score
TierOfScore(score) ==
    CASE score <= 50 -> 1
      [] score > 50 /\ score <= 150 -> 2
      [] score > 150 /\ score <= 300 -> 3
      [] score > 300 -> 4

\* C12: scoreToColor gives every score the one tier its thresholds name
\* (<= 50, <= 150, <= 300, above), a higher score never gets a lower tier,
\* and 120 is in tier 2.
C12_ColorTiers ==
    ScoreToColorDone =>
        /\ TierOf(ret.value.lower) = TierOfScore(call.lower)
        /\ TierOf(ret.value.higher) = TierOfScore(call.higher)
        /\ call.lower <= call.higher => TierOf(ret.value.lower) <= TierOf(ret.value.higher)
        /\ call.lower = 120 => TierOf(ret.value.lower) = 2

\* 120 against the threshold 150 itself: both in tier 2
C12_Witness ==
    /\ ScoreToColorDone
    /\ call.lower = 120 /\ call.higher = 150
    /\ ret.value = [lower |-> "#ffffbf", higher |-> "#ffffbf"]

----------------------------------------------------------------------------
(* Properties of the result of planRoute *)

PlanRouteReturned == PlanRouteDone /\ ret.status = "returned"

\* the count region nb contributes to the route of the call
ContributedCount(nb) ==
    sumIncidentsForNeighborhood(crimeDataByYear, nb, queryOf(call.opts).year,
                                queryOf(call.opts).crimeType, queryOf(call.opts).startHour,
                                queryOf(call.opts).endHour).value

\* C13: `worst` has at most 3 entries, each a touched region with the count it
\* contributed, sorted by count descending; no touched region left out of it
\* has a count strictly greater than one of its entries.
C13_WorstIsTopThree ==
    PlanRouteReturned =>
        LET worst == ret.value.worst
            touched == {ret.value.neighborhoods[i] : i \in 1..Len(ret.value.neighborhoods)}
            listed == {worst[i].name : i \in 1..Len(worst)}
        IN /\ Len(worst) <= 3
           /\ \A i, j \in 1..Len(worst) : i # j => worst[i].name # worst[j].name
           /\ \A i \in 1..Len(worst) :
                 /\ worst[i].name \in touched
                 /\ worst[i].count = ContributedCount(worst[i].name)
           /\ \A i, j \in 1..Len(worst) : i < j => worst[i].count >= worst[j].count
           /\ \A nb \in touched \ listed :
                 \A i \in 1..Len(worst) : ContributedCount(nb) <= worst[i].count

\* the line from A to E touches A, D, B and E; E, with the lowest count, is
\* left out and D, touched second, comes first
C13_Witness ==
    /\ PlanRouteReturned
    /\ ret.value.neighborhoods = << <<"A">>, <<"D">>, <<"B">>, <<"E">> >>
    /\ ret.value.worst = << [name |-> <<"D">>, count |-> 400],
                            [name |-> <<"A">>, count |-> 120],
                            [name |-> <<"B">>, count |-> 50] >>

\* the store holds no aggregate for the period the call asks about
NoPeriodData ==
    \/ queryOf(call.opts).year \notin DOMAIN crimeDataByYear
    \/ DOMAIN crimeDataByYear[queryOf(call.opts).year] = {}

\* C14: scoring a route for a period without aggregate data returns normally
\* with total = 0, score = 0 and an empty `worst`.
C14_MissingPeriodScoresZero ==
    (PlanRouteDone /\ ~UnresolvableEndpoint /\ NoPeriodData) =>
        /\ ret.status = "returned"
        /\ ret.value.total = 0
        /\ ret.value.score = 0
        /\ ret.value.worst = <<>>

\* the detour of the call: the midpoint of the straight line, 0.01 degrees
\* (WaypointOffset units) further north
DetourWaypoint ==
    Point((call.start.lat + call.dest.lat) \div 2 + WaypointOffset,
          (call.start.lng + call.dest.lng) \div 2)

\* the regions nearest to the 41 + 41 samples of start -> waypoint -> destination
DetourRegions ==
    LET step(a, b, i) == Point(a.lat + ((b.lat - a.lat) * i) \div DEFAULT_SAMPLES,
                               a.lng + ((b.lng - a.lng) * i) \div DEFAULT_SAMPLES)
        points == {step(call.start, DetourWaypoint, i) : i \in 0..DEFAULT_SAMPLES}
                  \cup {step(DetourWaypoint, call.dest, i) : i \in 0..DEFAULT_SAMPLES}
    IN {r.val : r \in {getNearestNeighborhood(neighborhoodCoordinates, p) : p \in points}}

\* the total of the detour: every region it touches counted once
DetourTotal ==
    LET counts == [nb \in DetourRegions |-> ContributedCount(nb)]
    IN SumOver(counts, DetourRegions)

\* C15: with a baseline score <= 100 planRoute offers no alternative, whatever
\* the detour would total: the gate is the score, not a comparison of totals.
C15_NoAlternativeAtOrBelowThreshold ==
    (PlanRouteReturned /\ ret.value.score <= 100) => ret.value.alternatives = <<>>

\* from A to B the line crosses D (total 46, score 15); the detour over C
\* would total 17, and still none is offered
C15_Witness ==
    /\ PlanRouteReturned
    /\ call.start = Point(0, 0) /\ call.dest = Point(0, 160)
    /\ ret.value.total = 46 /\ ret.value.score = 15
    /\ DetourTotal = 17
    /\ ret.value.alternatives = <<>>

\* C16: `alternatives` holds at most one candidate; a candidate is there only
\* if its total is strictly below the baseline's; it is the route start ->
\* waypoint -> destination, the waypoint being the midpoint with 0.01 added to
\* its latitude and its longitude unchanged.
C16_SingleStrictlyLowerCandidate ==
    PlanRouteReturned =>
        /\ Len(ret.value.alternatives) <= 1
        /\ ret.value.alternatives # <<>> =>
              /\ ret.value.alternatives[1].total < ret.value.total
              /\ ret.value.alternatives[1].waypoint = DetourWaypoint
              /\ ret.value.alternatives[1].total = DetourTotal

\* from A to B over the heavy store: 570 over A, D, B; the detour over C
\* totals 180
C16_Witness ==
    /\ PlanRouteReturned
    /\ call.start = Point(0, 0) /\ call.dest = Point(0, 160)
    /\ ret.value.total = 570 /\ ret.value.score = 190
    /\ ret.value.alternatives = <<[total |-> 180, waypoint |-> Point(40, 80)]>>

----------------------------------------------------------------------------
(* Rebuilding periods: processData called again and again.  A call keeps, as *)
(* `prior`, the store it found.                                             *)

RebuildRecords == {Rec("A", OtherTheft), Rec("B", Mischief), Rec("NULL", Homicide)}

RebuildBatches == SeqUpTo(RebuildRecords, MaxRecords)

InitRebuild ==
    /\ ChatIdle
    /\ crimeDataByYear = <<>>
    /\ neighborhoodCoordinates = <<>>
    /\ lastLayer = Null
    /\ loads = <<>>
    /\ call = NoCall
    /\ ret = NoCall

\* a caller hands the next batch of a period to processData
StartProcessData ==
    /\ ret # Pending
    /\ \E y \in Years, b \in RebuildBatches :
          call' = [op |-> "processData", year |-> y, records |-> b,
                   prior |-> crimeDataByYear]
    /\ ret' = Pending
    /\ UNCHANGED <<crimeDataByYear, neighborhoodCoordinates, lastLayer, loads, chatVars>>

NextRebuild == StartProcessData \/ ProcessData

SpecRebuild == InitRebuild /\ [][NextRebuild]_vars

\* C17: rebuilding a period replaces its aggregate: after processData(P,
\* batch2) on a store that holds an earlier batch of P, the aggregate of P
\* is the one batch2 gives on an empty store, with no region and no count of the
\* earlier batch, and every other period is as it was.
C17_RebuildReplaces ==
    ProcessDataDone =>
        /\ crimeDataByYear[call.year] = processData(<<>>, call.year, call.records).store[call.year]
        /\ DOMAIN crimeDataByYear[call.year]
              = {call.records[k].NEIGHBOURHOOD.val :
                    k \in {i \in 1..Len(call.records) : ValidRegion(call.records[i])}}
        /\ \A nb \in DOMAIN crimeDataByYear[call.year] :
              crimeDataByYear[call.year][nb]["all"]
                  = Cardinality({i \in 1..Len(call.records) :
                                    call.records[i].NEIGHBOURHOOD = Str(nb)})
        /\ DOMAIN crimeDataByYear = DOMAIN call.prior \cup {call.year}
        /\ \A y \in DOMAIN call.prior \ {call.year} : crimeDataByYear[y] = call.prior[y]

\* "2024" held A twice and "2025" held B; "2024" is rebuilt from one record
\* of B
C17_Witness ==
    /\ ProcessDataDone
    /\ call.year = "2024"
    /\ DOMAIN call.prior = {"2024", "2025"}
    /\ DOMAIN call.prior["2024"] = {<<"A">>} /\ call.prior["2024"][<<"A">>]["all"] = 2
    /\ call.records = <<Rec("B", Mischief)>>
    /\ DOMAIN crimeDataByYear["2024"] = {<<"B">>}
    /\ crimeDataByYear["2024"][<<"B">>]["all"] = 1
    /\ crimeDataByYear["2025"] = call.prior["2025"]

----------------------------------------------------------------------------
(* CrimeData.init, loadDataForYear, loadSampleData.  JavaScript runs each   *)
(* piece of an async function between two awaits as one step; the steps of *)
(* the loads interleave.                                                   *)

\* const years = [2020, ..., 2025], as the keys String(year) of the store
years == {"2020", "2021", "2022", "2023", "2024", "2025"}

\* the table `sample` of loadSampleData: name, all, theft, break, vehicle, person
sample ==
    <<
       <<<<"Central Business District">>, 1250, 520, 180, 380, 170>>,
       <<<<"West End">>, 680, 310, 95, 215, 60>>,
       <<<<"Strathcona">>, 890, 420, 135, 265, 70>>,
       <<<<"Grandview-Woodland">>, 520, 240, 85, 155, 40>>,
       <<<<"Mount Pleasant">>, 440, 210, 70, 130, 30>>,
       <<<<"Fairview">>, 380, 175, 60, 120, 25>>,
       <<<<"Kitsilano">>, 340, 160, 55, 105, 20>>,
       <<<<"Hastings-Sunrise">>, 460, 215, 75, 140, 30>>,
       <<<<"Renfrew-Collingwood">>, 390, 180, 65, 120, 25>>,
       <<<<"Kensington-Cedar Cottage">>, 410, 190, 68, 125, 27>>,
       <<<<"Riley Park">>, 280, 130, 45, 85, 20>>,
       <<<<"Sunset">>, 310, 145, 50, 95, 20>>,
       <<<<"Victoria-Fraserview">>, 260, 120, 42, 80, 18>>,
       <<<<"Killarney">>, 220, 105, 35, 65, 15>>,
       <<<<"Oakridge">>, 190, 90, 30, 58, 12>>,
       <<<<"Marpole">>, 330, 155, 53, 100, 22>>,
       <<<<"Dunbar-Southlands">>, 165, 80, 27, 48, 10>>,
       <<<<"Kerrisdale">>, 145, 70, 23, 42, 10>>,
       <<<<"Arbutus Ridge">>, 135, 65, 22, 38, 10>>,
       <<<<"Shaughnessy">>, 120, 58, 20, 34, 8>>,
       <<<<"West Point Grey">>, 155, 75, 25, 45, 10>>,
       <<<<"South Cambie">>, 175, 85, 28, 52, 10>>,
       <<<<"Stanley Park">>, 85, 45, 12, 22, 6>>,
       <<<<"Musqueam">>, 45, 22, 8, 12, 3>>
    >>

\* the object loadSampleData builds for each year
sampleData ==
    [nb \in {sample[i][1] : i \in 1..Len(sample)} |->
        LET s == sample[CHOOSE i \in 1..Len(sample) : sample[i][1] = nb]
        IN sampleAggregate(s[2], s[3], s[4], s[5], s[6])]

loadSampleData(store) ==
    [y \in DOMAIN store \cup years |-> IF y \in years THEN sampleData ELSE store[y]]

\* a plausible slip: the error passed on to the caller in place of the empty
\* aggregate
onLoadErrorRethrow(store, year) ==
    [at |-> [at |-> "threw"], store |-> store]

\* catch (err) { this.crimeDataByYear[String(year)] = {}; }
onLoadError(store, year) ==
    [at |-> [at |-> "failed"], store |-> Put(store, year, <<>>)]

\* loadDataForYear after `await fetch(filePath)`: the fetch was rejected, or
\* answered with res.ok false, or with res.ok true
fetchSettled(store, year, outcome) ==
    CASE outcome = "rejected" -> onLoadError(store, year)
      [] outcome = "notOk" -> [at |-> [at |-> "failed"], store |-> Put(store, year, <<>>)]
      [] outcome = "ok" -> [at |-> [at |-> "text"], store |-> store]

\* loadDataForYear after `await res.text()`: the body could not be read, or
\* Papa.parse threw, or it gave the rows, which processData aggregates
textSettled(store, year, outcome, rows) ==
    IF outcome # "ok" THEN onLoadError(store, year)
    ELSE LET out == processData(store, year, rows)
         IN IF out.ret.status = "returned"
            THEN [at |-> [at |-> "loaded", rows |-> rows], store |-> out.store]
            ELSE onLoadError(store, year)

\* a plausible slip: every() in place of some(), so one period without data
\* is enough for the fallback
hasDataEvery(store) == \A y \in DOMAIN store : DOMAIN store[y] # {}

\* Object.keys(this.crimeDataByYear).some(y => d && Object.keys(d).length > 0)
hasData(store) == \E y \in DOMAIN store : DOMAIN store[y] # {}

\* init after `await Promise.all(dataPromises)`: a rejected load rejects init;
\* otherwise the sample data fill in when no period has data
initSettled(store, pc) ==
    IF \E y \in years : pc[y].at = "threw"
    THEN [phase |-> "threw", store |-> store]
    ELSE [phase |-> "done", store |-> IF hasData(store) THEN store ELSE loadSampleData(store)]

----------------------------------------------------------------------------
(* The loads of init, step by step *)

\* what the file of a year holds when the i-th call of init reads it: i
\* records of one region, A in even years and B in odd ones
FileRows(i, y) ==
    LET nb == IF y \in {"2020", "2022", "2024"} THEN "A" ELSE "B"
    IN [k \in 1..i |-> Rec(nb, IF k = 1 THEN OtherTheft ELSE Mischief)]

\* the rows Papa.parse may hand over: those of the file, or none
RowsInputs(i, y) == {<<>>, FileRows(i, y)}

FetchOutcomes == {"rejected", "notOk", "ok"}

TextOutcomes == {"rejected", "parseThrows", "ok"}

\* the loads of the call cl that have not ended
Unfinished(cl) == {y \in years : cl.pc[y].at \in {"fetch", "text"}}

\* the files the server holds while two calls of init overlap: one; the other
\* years' fetches fail
OverlapServed == {{"2024"}}

\* the server holds a file for every year (each fetch may still fail)
InitLoad ==
    /\ ChatIdle
    /\ crimeDataByYear = <<>>
    /\ neighborhoodCoordinates = <<>>
    /\ lastLayer = Null
    /\ loads = <<>>
    /\ call = [op |-> "init", served |-> years]
    /\ ret = NoCall

InitOverlap ==
    /\ ChatIdle
    /\ crimeDataByYear = <<>>
    /\ neighborhoodCoordinates = <<>>
    /\ lastLayer = Null
    /\ loads = <<>>
    /\ call \in {[op |-> "init", served |-> S] : S \in OverlapServed}
    /\ ret = NoCall

\* init(): years.map(year => this.loadDataForYear(year)) runs every load up to
\* its `await fetch(...)`, then init waits for all of them
CallInit ==
    /\ loads = <<>>
    /\ loads' = <<[phase |-> "loading", pc |-> [y \in years |-> [at |-> "fetch"]]]>>
    /\ UNCHANGED <<crimeDataByYear, neighborhoodCoordinates, lastLayer, call, ret, chatVars>>

\* init() called again while the first call is waiting for its loads
CallInitAgain ==
    /\ Len(loads) = 1
    /\ loads[1].phase = "loading"
    /\ loads' = Append(loads, [phase |-> "loading", pc |-> [y \in years |-> [at |-> "fetch"]]])
    /\ UNCHANGED <<crimeDataByYear, neighborhoodCoordinates, lastLayer, call, ret, chatVars>>

\* the fetch of one load settles and the load runs on to its next await or
\* to its end
FetchSettles ==
    \E i \in 1..Len(loads), y \in years, outcome \in FetchOutcomes :
        /\ loads[i].pc[y].at = "fetch"
        /\ outcome = "ok" => y \in call.served
        /\ LET out == fetchSettled(crimeDataByYear, y, outcome)
           IN /\ crimeDataByYear' = out.store
              /\ loads' = [loads EXCEPT ![i].pc[y] = out.at]
        /\ UNCHANGED <<neighborhoodCoordinates, lastLayer, call, ret, chatVars>>

\* res.text() of one load settles and the load runs to its end
TextSettles ==
    \E i \in 1..Len(loads), y \in years, outcome \in TextOutcomes :
        \E rows \in IF outcome = "ok" THEN RowsInputs(i, y) ELSE {<<>>} :
            /\ loads[i].pc[y].at = "text"
            /\ LET out == textSettled(crimeDataByYear, y, outcome, rows)
               IN /\ crimeDataByYear' = out.store
                  /\ loads' = [loads EXCEPT ![i].pc[y] = out.at]
            /\ UNCHANGED <<neighborhoodCoordinates, lastLayer, call, ret, chatVars>>

\* Promise.all settles (every load ended, or one was rejected) and init runs
\* to its end
InitSettles ==
    \E i \in 1..Len(loads) :
        /\ loads[i].phase = "loading"
        /\ \/ Unfinished(loads[i]) = {}
           \/ \E y \in years : loads[i].pc[y].at = "threw"
        /\ LET out == initSettled(crimeDataByYear, loads[i].pc)
           IN /\ crimeDataByYear' = out.store
              /\ loads' = [loads EXCEPT ![i].phase = out.phase]
        /\ UNCHANGED <<neighborhoodCoordinates, lastLayer, call, ret, chatVars>>

NextInit == CallInit \/ FetchSettles \/ TextSettles \/ InitSettles

\* one call of init
SpecInit == InitLoad /\ [][NextInit]_vars

NextOverlap == CallInit \/ CallInitAgain \/ FetchSettles \/ TextSettles \/ InitSettles

\* two calls of init, the second overlapping the first
SpecOverlap == InitOverlap /\ [][NextOverlap]_vars

----------------------------------------------------------------------------
(* Properties of the loads *)

\* e is the aggregate of the whole batch b and of nothing else: its regions
\* are the valid region names of b and each counter is the number of b's
\* records of that region (and category)
IsAggregateOf(e, b) ==
    LET of(nb) == {i \in 1..Len(b) : b[i].NEIGHBOURHOOD = Str(nb)}
    IN /\ DOMAIN e = {b[i].NEIGHBOURHOOD.val : i \in {k \in 1..Len(b) : ValidRegion(b[k])}}
       /\ \A nb \in DOMAIN e :
             /\ DOMAIN e[nb] = {"all"} \cup Categories
             /\ e[nb]["all"] = Cardinality(of(nb))
             /\ \A c \in Categories :
                   e[nb][c] = Cardinality({i \in of(nb) : categorizeCrime(b[i].TYPE).value = c})

\* the first call of init has ended
InitDone == Len(loads) >= 1 /\ loads[1].phase # "loading"

\* the i-th call of init has not fallen back on the sample data: it is still
\* waiting for its loads, or one of them counted a record
SampleNotLoaded(i) ==
    \/ loads[i].phase = "loading"
    \/ \E z \in years : loads[i].pc[z].at = "loaded" /\ loads[i].pc[z].rows # <<>>

\* C18: a load that fails leaves its period with an empty aggregate and throws
\* nothing to init; the other periods' loads end with their own aggregates;
\* once init has ended every period 2020..2025 has an entry in the store.
C18_FailedLoadLeavesEmptyPeriod ==
    \A i \in 1..Len(loads) :
        /\ loads[i].phase # "threw"
        /\ \A y \in years :
              /\ loads[i].pc[y].at # "threw"
              /\ (loads[i].pc[y].at = "failed" /\ SampleNotLoaded(i)) =>
                    (y \in DOMAIN crimeDataByYear /\ crimeDataByYear[y] = <<>>)
              /\ (loads[i].pc[y].at = "loaded" /\ SampleNotLoaded(i)) =>
                    (y \in DOMAIN crimeDataByYear
                     /\ IsAggregateOf(crimeDataByYear[y], loads[i].pc[y].rows))
        /\ loads[i].phase = "done" => years \subseteq DOMAIN crimeDataByYear

\* init has ended; the load of 2024 failed and left an empty aggregate, the
\* load of 2025 counted its record
C18_Witness ==
    /\ InitDone
    /\ loads[1].phase = "done"
    /\ loads[1].pc["2024"].at = "failed"
    /\ loads[1].pc["2025"].at = "loaded"
    /\ crimeDataByYear["2024"] = <<>>
    /\ DOMAIN crimeDataByYear["2025"] = {<<"B">>}
    /\ crimeDataByYear["2025"][<<"B">>]["all"] = 1
    /\ DOMAIN crimeDataByYear = years

\* C19: whatever the interleaving of the loads of overlapping init calls, the
\* store entry of a period is at every moment absent, empty, the complete
\* sample aggregate, or the complete aggregate of one batch: never a mixture
\* of two batches, never a part of one.
C19_EntriesAreWhole ==
    /\ DOMAIN crimeDataByYear \subseteq years
    /\ \A y \in DOMAIN crimeDataByYear :
          \/ crimeDataByYear[y] = <<>>
          \/ crimeDataByYear[y] = sampleData
          \/ \E i \in 1..Len(loads) : IsAggregateOf(crimeDataByYear[y], FileRows(i, y))

\* both calls read the file of 2024, the second call first: the entry is
\* the first call's batch alone, while a load of the second call is under way
C19_Witness ==
    /\ Len(loads) = 2
    /\ loads[1].pc["2024"] = [at |-> "loaded", rows |-> FileRows(1, "2024")]
    /\ loads[2].pc["2024"] = [at |-> "loaded", rows |-> FileRows(2, "2024")]
    /\ crimeDataByYear["2024"][<<"A">>]["all"] = 1
    /\ Unfinished(loads[2]) # {}

----------------------------------------------------------------------------
(* The hour histogram of the aggregates processData builds *)

\* the hour histogram of a region aggregate; empty when it carries none
HistogramOf(agg) == IF "hourCounts" \in DOMAIN agg THEN agg["hourCounts"] ELSE <<>>

\* the accepted records of region nb in the batch of the call whose HOUR is
\* the integer h
RecordsAtHour(nb, h) ==
    {i \in 1..Len(call.records) :
        /\ call.records[i].NEIGHBOURHOOD = Str(nb)
        /\ "HOUR" \in DOMAIN call.records[i]
        /\ call.records[i].HOUR = Num(h)}

\* C20: in every region aggregate processData produces the hour histogram
\* counts exactly the accepted records with a valid hour: its keys lie in
\* 0..23, the slot of hour h holds the number of the region's records with
\* that hour, other records add nothing, and its values sum to at most `all`.
C20_HistogramCountsValidHours ==
    ProcessDataDone =>
        \A nb \in DOMAIN crimeDataByYear[call.year] :
            LET agg == crimeDataByYear[call.year][nb]
                hist == HistogramOf(agg)
            IN /\ DOMAIN hist \subseteq 0..(HoursPerDay - 1)
               /\ \A h \in 0..(HoursPerDay - 1) :
                     CountOrZero(hist, h) = Cardinality(RecordsAtHour(nb, h))
               /\ SumOver(hist, DOMAIN hist) <= agg["all"]

----------------------------------------------------------------------------
(* topHours of a region aggregate.  The sources read the field              *)
(* (GeminiAI.buildContext) and never compute it; it is modelled as the     *)
(* design describes it: the three hours with the highest counts,           *)
(* descending, equal counts in the order of the histogram's keys.          *)

\* the entries {hour, count} of a histogram in the order of its keys
RECURSIVE hourEntries(_, _)
hourEntries(hourCounts, from) ==
    IF from >= HoursPerDay THEN <<>>
    ELSE (IF from \in DOMAIN hourCounts
          THEN <<[hour |-> from, count |-> hourCounts[from]]>> ELSE <<>>)
         \o hourEntries(hourCounts, from + 1)

\* a plausible slip: the first three hours of the histogram, unsorted
topHoursUnsorted(hourCounts) ==
    Bind(hourEntries(hourCounts, 0), LAMBDA entries :
        SubSeq(entries, 1, IF Len(entries) < 3 THEN Len(entries) ELSE 3))

topHours(hourCounts) ==
    Bind(sortByCountDesc(hourEntries(hourCounts, 0), <<>>), LAMBDA sorted :
        SubSeq(sorted, 1, IF Len(sorted) < 3 THEN Len(sorted) ELSE 3))

\* histograms over four hours with counts up to MaxHourCount
TopHoursInputs ==
    UNION {[H -> 1..MaxHourCount] : H \in SUBSET {0, 5, 12, 23}}

InitTop ==
    /\ ChatIdle
    /\ crimeDataByYear = <<>>
    /\ neighborhoodCoordinates = <<>>
    /\ lastLayer = Null
    /\ loads = <<>>
    /\ call \in {[op |-> "topHours", hourCounts |-> hc] : hc \in TopHoursInputs}
    /\ ret = Pending

TopHours ==
    /\ call.op = "topHours"
    /\ ret = Pending
    /\ ret' = Return(topHours(call.hourCounts))
    /\ UNCHANGED <<crimeDataByYear, neighborhoodCoordinates, lastLayer, loads, call, chatVars>>

NextTop == TopHours

SpecTop == InitTop /\ [][NextTop]_vars

TopHoursDone == call.op = "topHours" /\ ret # Pending

\* C21: for a non-empty hour histogram topHours lists at most 3 (hour, count)
\* pairs of the histogram, sorted by count descending, and no hour left out
\* has a count strictly greater than a listed one.
C21_TopHoursAreTopThree ==
    (TopHoursDone /\ DOMAIN call.hourCounts # {}) =>
        LET top == ret.value
            listed == {top[i].hour : i \in 1..Len(top)}
        IN /\ Len(top) <= 3
           /\ \A i, j \in 1..Len(top) : i # j => top[i].hour # top[j].hour
           /\ \A i \in 1..Len(top) :
                 /\ top[i].hour \in DOMAIN call.hourCounts
                 /\ top[i].count = call.hourCounts[top[i].hour]
           /\ \A i, j \in 1..Len(top) : i < j => top[i].count >= top[j].count
           /\ \A h \in DOMAIN call.hourCounts \ listed :
                 \A i \in 1..Len(top) : call.hourCounts[h] <= top[i].count

\* four hours, the first of them with the lowest count: it is left out
C21_Witness ==
    /\ TopHoursDone
    /\ call.hourCounts = [h \in {0, 5, 12, 23} |-> IF h = 0 THEN 1 ELSE 2]
    /\ ret.value = <<[hour |-> 5, count |-> 2], [hour |-> 12, count |-> 2],
                     [hour |-> 23, count |-> 2]>>

----------------------------------------------------------------------------
(* CrimeData.getNeighborhoodData.  The sources hold two data modules: the   *)
(* one modelled so far, over crimeDataByYear, and src/src/data.js, over    *)
(* its embedded table `neighborhoods`.                                      *)

\* one year of crimeStats of the embedded table
statsOf(all, theft, break, vehicle, person) ==
    [k \in {"all", "theft", "break", "vehicle", "person"} |->
        CASE k = "all" -> all
          [] k = "theft" -> theft
          [] k = "break" -> break
          [] k = "vehicle" -> vehicle
          [] k = "person" -> person]

\* the last two entries of CrimeData.neighborhoods of src/src/data.js
neighborhoods ==
    [nb \in {<<"Stanley Park">>, <<"Musqueam">>} |->
        [name |-> nb,
         crimeStats |->
            IF nb = <<"Stanley Park">>
            THEN [y \in {"2020", "2021", "2022", "2023", "2024"} |->
                    CASE y = "2024" -> statsOf(85, 45, 12, 22, 6)
                      [] y = "2023" -> statsOf(95, 52, 14, 23, 6)
                      [] y = "2022" -> statsOf(90, 48, 13, 23, 6)
                      [] y = "2021" -> statsOf(75, 42, 10, 18, 5)
                      [] y = "2020" -> statsOf(65, 36, 8, 16, 5)]
            ELSE [y \in {"2020", "2021", "2022", "2023", "2024"} |->
                    CASE y = "2024" -> statsOf(45, 22, 8, 12, 3)
                      [] y = "2023" -> statsOf(50, 25, 9, 13, 3)
                      [] y = "2022" -> statsOf(47, 23, 8, 13, 3)
                      [] y = "2021" -> statsOf(40, 20, 7, 11, 2)
                      [] y = "2020" -> statsOf(35, 18, 6, 9, 2)]]]

\* getNeighborhoodData of src/src/data.js
getNeighborhoodDataOfTable(table, neighborhoodName, year, crimeType) ==
    IF neighborhoodName \notin DOMAIN table THEN Null
    ELSE IF year \notin DOMAIN table[neighborhoodName].crimeStats THEN Null
    ELSE [name |-> table[neighborhoodName].name,
          year |-> year,
          incidents |-> CountOrZero(table[neighborhoodName].crimeStats[year], crimeType),
          crimeType |-> crimeType]

\* stores of the lookups: empty, a period without regions, a built period,
\* the sample data
GetStores ==
    {<<>>,
     Put(<<>>, "2024", <<>>),
     processData(<<>>, "2024", <<Rec("Musqueam", OtherTheft), Rec("Musqueam", Mischief)>>).store,
     loadSampleData(<<>>)}

GetCalls ==
    {[op |-> o, neighborhoodName |-> nb, year |-> y, crimeType |-> c] :
        o \in {"getNeighborhoodData", "getNeighborhoodData of data.js"},
        nb \in {<<"Musqueam">>, <<"Stanley Park">>, <<"Atlantis">>},
        y \in {"2024", "2025", "1999"},
        c \in {"all", "theft", "mischief", "break", "arson"}}

InitGet ==
    /\ ChatIdle
    /\ crimeDataByYear \in GetStores
    /\ neighborhoodCoordinates = <<>>
    /\ lastLayer = Null
    /\ loads = <<>>
    /\ call \in GetCalls
    /\ ret = Pending

GetNeighborhoodData ==
    /\ call.op = "getNeighborhoodData"
    /\ ret = Pending
    /\ ret' = Return(getNeighborhoodData(crimeDataByYear, call.neighborhoodName,
                                         call.year, call.crimeType))
    /\ UNCHANGED <<crimeDataByYear, neighborhoodCoordinates, lastLayer, loads, call, chatVars>>

GetNeighborhoodDataOfTable ==
    /\ call.op = "getNeighborhoodData of data.js"
    /\ ret = Pending
    /\ ret' = Return(getNeighborhoodDataOfTable(neighborhoods, call.neighborhoodName,
                                                call.year, call.crimeType))
    /\ UNCHANGED <<crimeDataByYear, neighborhoodCoordinates, lastLayer, loads, call, chatVars>>

NextGet == GetNeighborhoodData \/ GetNeighborhoodDataOfTable

SpecGet == InitGet /\ [][NextGet]_vars

GetDone ==
    /\ call.op \in {"getNeighborhoodData", "getNeighborhoodData of data.js"}
    /\ ret # Pending

\* the data the call looks into hold nothing for its period and region
GetMissing ==
    IF call.op = "getNeighborhoodData"
    THEN \/ call.year \notin DOMAIN crimeDataByYear
         \/ call.neighborhoodName \notin DOMAIN crimeDataByYear[call.year]
    ELSE \/ call.neighborhoodName \notin DOMAIN neighborhoods
         \/ call.year \notin DOMAIN neighborhoods[call.neighborhoodName].crimeStats

\* the counters the call finds for its period and region
GetFound ==
    IF call.op = "getNeighborhoodData"
    THEN crimeDataByYear[call.year][call.neighborhoodName]
    ELSE neighborhoods[call.neighborhoodName].crimeStats[call.year]

\* C22: getNeighborhoodData recovers from missing data: for a period without
\* aggregate or a region absent from it the call returns a zero-valued record
\* (incidents = 0), neither throwing nor returning null; for a category
\* filter that is no key of the aggregate it returns incidents = 0.
C22_MissingDataGivesZeroRecord ==
    GetDone =>
        /\ ret.status = "returned"
        /\ ret.value # Null
        /\ ret.value["incidents"] =
              (IF GetMissing THEN 0 ELSE CountOrZero(GetFound, call.crimeType))

----------------------------------------------------------------------------
(* sampleLine over a grid of positions.  The coordinates are multiples of   *)
(* 120 units, which every step count used here divides.                    *)

MaxSamples == 4

LinePositions == {Point(120 * y, 120 * x) : y \in (0 - 1)..1, x \in (0 - 1)..1}

\* the step counts of a call: left out (the default applies) or 1..MaxSamples
SamplesInputs == {Undefined} \cup {Num(n) : n \in 1..MaxSamples}

InitLine ==
    /\ ChatIdle
    /\ crimeDataByYear = <<>>
    /\ neighborhoodCoordinates = <<>>
    /\ lastLayer = Null
    /\ loads = <<>>
    /\ call \in {[op |-> "sampleLine", a |-> a, b |-> b, samples |-> n] :
                    a \in LinePositions, b \in LinePositions, n \in SamplesInputs}
    /\ ret = Pending

\* sampleLine(a, b, samples = this.DEFAULT_SAMPLES)
SampleLine ==
    /\ call.op = "sampleLine"
    /\ ret = Pending
    /\ ret' = Return(sampleLine(call.a, call.b,
                                IF call.samples = Undefined THEN DEFAULT_SAMPLES
                                ELSE call.samples.val))
    /\ UNCHANGED <<crimeDataByYear, neighborhoodCoordinates, lastLayer, loads, call, chatVars>>

NextLine == SampleLine

SpecLine == InitLine /\ [][NextLine]_vars

SampleLineDone == call.op = "sampleLine" /\ ret # Pending

\* the N of the call
StepsOfCall == IF call.samples = Undefined THEN 40 ELSE call.samples.val

----------------------------------------------------------------------------
(* GeminiAI.sendMessage and GeminiAI.callGeminiAPI.  A call of sendMessage  *)
(* runs up to `await this.callGeminiAPI(prompt)`, which itself waits for    *)
(* fetch and then for response.json(); each stretch between two awaits is   *)
(* one step.  What the API answers to the i-th call is call.outcomes[i].    *)

HistoryLimit == 20

Entry(role, content) == [role |-> role, content |-> content]

Error(message) == [name |-> "Error", message |-> message]
TypeError(message) == [name |-> "TypeError", message |-> message]
SyntaxError(message) == [name |-> "SyntaxError", message |-> message]

\* k is an own key of the object o
Has(o, k) == k \in DOMAIN o

\* Array.prototype.slice(-n)
sliceLast(s, n) == IF Len(s) <= n THEN s ELSE SubSeq(s, Len(s) - n + 1, Len(s))

\* Boolean(CONFIG.GEMINI_API_KEY)
isConfigured(key) == Truthy(key)

NotConfigured ==
    [success |-> FALSE,
     message |-> Str(<<"Please configure your Google Gemini API key in config.js. ",
                       "Get your free API key at: https://makersuite.google.com/app/apikey">>)]

\* a plausible slip: slice(0, 20), which keeps the oldest entries
appendExchangeKeepFirst(history, userMessage, response) ==
    Bind(history \o <<Entry("user", userMessage), Entry("assistant", response)>>,
         LAMBDA h : IF Len(h) > HistoryLimit THEN SubSeq(h, 1, HistoryLimit) ELSE h)

\* the two pushes and the cut to the last 20 entries
appendExchange(history, userMessage, response) ==
    Bind(history \o <<Entry("user", userMessage), Entry("assistant", response)>>,
         LAMBDA h : IF Len(h) > HistoryLimit THEN sliceLast(h, HistoryLimit) ELSE h)

\* a plausible slip: the user's message is kept although the call failed
onSendErrorKeepsUserMessage(history, userMessage, error) ==
    [history |-> history \o <<Entry("user", userMessage)>>,
     result |-> [success |-> FALSE,
                 message |-> Str(<<"Failed to get response: ">> \o error.message)]]

\* the catch block of sendMessage
onSendError(history, userMessage, error) ==
    [history |-> history,
     result |-> [success |-> FALSE,
                 message |-> Str(<<"Failed to get response: ">> \o error.message)]]

\* `throw new Error(errorData.error?.message || 'API request failed')`
apiError(errorData) ==
    IF /\ Has(errorData, "error")
       /\ Has(errorData.error, "message")
       /\ Truthy(errorData.error.message)
    THEN Error(errorData.error.message.val)
    ELSE Error(<<"API request failed">>)

\* callGeminiAPI from the parsed body on: the format check and
\* `return data.candidates[0].content.parts[0].text`
textOf(data) ==
    IF \/ ~Has(data, "candidates")
       \/ Len(data.candidates) = 0
       \/ ~Has(data.candidates[1], "content")
    THEN Throw(Error(<<"Invalid response format from Gemini API">>))
    ELSE IF ~Has(data.candidates[1].content, "parts")
    THEN Throw(TypeError(<<"Cannot read properties of undefined (reading '0')">>))
    ELSE IF Len(data.candidates[1].content.parts) = 0
    THEN Throw(TypeError(<<"Cannot read properties of undefined (reading 'text')">>))
    ELSE IF ~Has(data.candidates[1].content.parts[1], "text")
    THEN Return(Undefined)
    ELSE Return(data.candidates[1].content.parts[1].text)

\* the calls of sendMessage that have not returned
InFlight == {i \in 1..Len(sends) : sends[i].pc # "done"}

\* sendMessage(userMessage) up to its first await, or up to its return when
\* no key is configured
sendMessageCalled(userMessage) ==
    /\ IF ~isConfigured(call.apiKey)
       THEN /\ sends' = Append(sends, [message |-> userMessage, pc |-> "done", fetches |-> 0])
            /\ ret' = Append(ret, [n |-> Len(sends) + 1, value |-> NotConfigured])
       ELSE /\ sends' = Append(sends, [message |-> userMessage, pc |-> "fetch", fetches |-> 1])
            /\ ret' = ret
    /\ conversationHistory' = conversationHistory

\* the i-th call ends in its catch block
sendMessageFails(i, error) ==
    LET r == onSendError(conversationHistory, sends[i].message, error)
    IN /\ conversationHistory' = r.history
       /\ sends' = [sends EXCEPT ![i].pc = "done"]
       /\ ret' = Append(ret, [n |-> i, value |-> r.result])

\* the i-th call goes on after its await with the text of the answer
sendMessageResumes(i, response) ==
    /\ conversationHistory' = appendExchange(conversationHistory, sends[i].message, response)
    /\ sends' = [sends EXCEPT ![i].pc = "done"]
    /\ ret' = Append(ret, [n |-> i, value |-> [success |-> TRUE, message |-> response]])

\* the fetch of a call settles
ApiFetchSettles ==
    \E i \in InFlight :
        /\ sends[i].pc = "fetch"
        /\ CASE call.outcomes[i].fetch = "rejects" ->
                    sendMessageFails(i, TypeError(<<"Failed to fetch">>))
             [] call.outcomes[i].fetch = "notOk" ->
                    /\ sends' = [sends EXCEPT ![i].pc = "errorJson"]
                    /\ UNCHANGED <<conversationHistory, ret>>
             [] call.outcomes[i].fetch = "ok" ->
                    /\ sends' = [sends EXCEPT ![i].pc = "json"]
                    /\ UNCHANGED <<conversationHistory, ret>>
        /\ UNCHANGED <<crimeDataByYear, neighborhoodCoordinates, lastLayer, loads, call,
                       chatInput, chatMessages, sendBtn, chats, now>>

\* response.json() of a call settles; callGeminiAPI returns or throws and
\* sendMessage goes on
ApiJsonSettles ==
    \E i \in InFlight :
        /\ sends[i].pc \in {"errorJson", "json"}
        /\ IF call.outcomes[i].json.settles = "rejects"
           THEN sendMessageFails(i, SyntaxError(<<"Unexpected end of JSON input">>))
           ELSE IF sends[i].pc = "errorJson"
           THEN sendMessageFails(i, apiError(call.outcomes[i].json.data))
           ELSE LET r == textOf(call.outcomes[i].json.data)
                IN IF r.status = "threw"
                   THEN sendMessageFails(i, r.error)
                   ELSE sendMessageResumes(i, r.value)
        /\ UNCHANGED <<crimeDataByYear, neighborhoodCoordinates, lastLayer, loads, call,
                       chatInput, chatMessages, sendBtn, chats, now>>

----------------------------------------------------------------------------
(* A conversation: sendMessage is called up to MaxSends times, a call       *)
(* starting while at most MaxInFlight - 1 others are waiting for the API.   *)

MaxSends == 11
MaxInFlight == 2

Message(i) == Str(<<"message ", ToString(i)>>)
Reply(i) == Str(<<"reply ", ToString(i)>>)

Resolves(data) == [settles |-> "resolves", data |-> data]
Rejects == [settles |-> "rejects"]

\* a body with a text
TextBody(text) == [candidates |-> <<[content |-> [parts |-> <<[text |-> text]>>]]>>]

\* the i-th call is answered with a text
Answered(i) == [fetch |-> "ok", json |-> Resolves(TextBody(Reply(i)))]

\* the answers callGeminiAPI throws on
ThrowingOutcomes ==
    {[fetch |-> "rejects", json |-> Rejects],
     [fetch |-> "notOk", json |-> Rejects],
     [fetch |-> "notOk", json |-> Resolves([error |-> [message |-> Str(<<"API key not valid">>)]])],
     [fetch |-> "notOk", json |-> Resolves([code |-> Num(500)])],
     [fetch |-> "ok", json |-> Rejects],
     [fetch |-> "ok", json |-> Resolves([promptFeedback |-> Str(<<"SAFETY">>)])],
     [fetch |-> "ok", json |-> Resolves([candidates |-> <<>>])],
     [fetch |-> "ok", json |-> Resolves([candidates |-> <<[finishReason |-> Str(<<"SAFETY">>)]>>])],
     [fetch |-> "ok", json |-> Resolves([candidates |-> <<[content |-> [role |-> Str(<<"model">>)]]>>])],
     [fetch |-> "ok", json |-> Resolves([candidates |-> <<[content |-> [parts |-> <<>>]]>>])]}

\* an answer whose first part holds no text: callGeminiAPI returns undefined
Textless ==
    [fetch |-> "ok",
     json |-> Resolves([candidates |-> <<[content |-> [parts |-> <<[inlineData |-> Str(<<>>)]>>]]>>])]

\* what the API answers, call by call: every call answered, or the second of
\* three not
ChatScripts ==
    {[i \in 1..MaxSends |-> Answered(i)]}
        \cup {<<Answered(1), o, Answered(3)>> : o \in ThrowingOutcomes \cup {Textless}}

KeyInputs == {Undefined, Str(<<>>), Str(<<"key">>)}

InitChat ==
    /\ ChatIdle
    /\ crimeDataByYear = <<>>
    /\ neighborhoodCoordinates = <<>>
    /\ lastLayer = Null
    /\ loads = <<>>
    /\ call \in {[op |-> "sendMessage", apiKey |-> k, outcomes |-> s] :
                    k \in KeyInputs, s \in ChatScripts}
    /\ ret = <<>>

\* GeminiAI.sendMessage is called
SendMessage ==
    /\ call.op = "sendMessage"
    /\ Len(sends) < Len(call.outcomes)
    /\ Cardinality(InFlight) < MaxInFlight
    /\ sendMessageCalled(Message(Len(sends) + 1))
    /\ UNCHANGED <<crimeDataByYear, neighborhoodCoordinates, lastLayer, loads, call,
                   chatInput, chatMessages, sendBtn, chats, now>>

NextChat == SendMessage \/ ApiFetchSettles \/ ApiJsonSettles

SpecChat == InitChat /\ [][NextChat]_vars

RECURSIVE AppendedOf(_)
\* the entries the calls returned so far have appended, oldest first
AppendedOf(returned) ==
    IF returned = <<>> THEN <<>>
    ELSE Bind(returned[Len(returned)],
              LAMBDA r :
                 AppendedOf(SubSeq(returned, 1, Len(returned) - 1))
                    \o (IF r.value.success
                        THEN <<Entry("user", sends[r.n].message),
                               Entry("assistant", r.value.message)>>
                        ELSE <<>>))

\* C24: whatever the order in which overlapping sendMessage calls return,
\* conversationHistory holds at most 20 entries, and they are the most recently
\* appended ones in the order they were appended.
C24_HistoryKeepsLastTwenty ==
    call.op = "sendMessage" =>
        LET log == AppendedOf(ret)
            kept == Len(conversationHistory)
        IN /\ kept <= 20
           /\ kept = (IF Len(log) <= 20 THEN Len(log) ELSE 20)
           /\ conversationHistory = SubSeq(log, Len(log) - kept + 1, Len(log))

\* eleven exchanges appended, two of them by calls that returned in the other
\* order than they were made, the oldest exchange cut
C24_Witness ==
    /\ call.op = "sendMessage"
    /\ Len(AppendedOf(ret)) = 22
    /\ Len(conversationHistory) = 20
    /\ \E k \in 1..(Len(ret) - 1) : ret[k].n > ret[k + 1].n
    /\ conversationHistory[1].content # sends[ret[1].n].message

\* the entries are user, assistant, user, assistant, ...
Alternating(history) ==
    /\ Len(history) % 2 = 0
    /\ \A k \in 1..Len(history) :
          history[k].role = (IF k % 2 = 1 THEN "user" ELSE "assistant")

\* the i-th call cannot succeed: no key is configured, or the API call throws
\* or answers in a format callGeminiAPI rejects
CannotSucceed(i) ==
    \/ ~isConfigured(call.apiKey)
    \/ call.outcomes[i] \in ThrowingOutcomes

----------------------------------------------------------------------------
(* The store that init leaves *)

\* all == commercial + residential + theft + vehicle + person + mischief + other
AllIsSumOfCategories(aggregate) ==
    aggregate.all = aggregate.commercial + aggregate.residential + aggregate.theft
                        + aggregate.vehicle + aggregate.person + aggregate.mischief
                        + aggregate.other

\* C25: in every state of the store that init reaches, the state after
\* loadSampleData included, every region's aggregate of every period has
\* all == commercial + residential + theft + vehicle + person + mischief + other.
C25_AllIsSumInEveryInitState ==
    call.op = "init" =>
        \A y \in DOMAIN crimeDataByYear :
            \A nb \in DOMAIN crimeDataByYear[y] :
                AllIsSumOfCategories(crimeDataByYear[y][nb])

\* the same, of the states in which no call of init has installed the sample
\* data
C25_AllIsSumOfLoadedRecords ==
    (call.op = "init" /\ \A i \in 1..Len(loads) : SampleNotLoaded(i)) =>
        \A y \in DOMAIN crimeDataByYear :
            \A nb \in DOMAIN crimeDataByYear[y] :
                AllIsSumOfCategories(crimeDataByYear[y][nb])

\* the first call of init goes on after Promise.all in this step
InitResumes ==
    /\ loads # <<>>
    /\ loads[1].phase = "loading"
    /\ loads'[1].phase # "loading"

\* C26: when init goes on after all its loads have settled, it installs the
\* sample data for every period if no period has a non-empty aggregate, and
\* leaves every period's aggregate (loaded or empty) as it is if one has; no
\* other step installs sample data.
C26_SampleDataOnlyWithoutData ==
    [][call.op = "init" =>
        IF InitResumes
        THEN IF \E y \in DOMAIN crimeDataByYear : DOMAIN crimeDataByYear[y] # {}
             THEN crimeDataByYear' = crimeDataByYear
             ELSE \A y \in years : crimeDataByYear'[y] = sampleData
        ELSE \A y \in DOMAIN crimeDataByYear' :
                crimeDataByYear'[y] = sampleData =>
                    (y \in DOMAIN crimeDataByYear /\ crimeDataByYear[y] = sampleData)]_vars

\* init has ended; 2024 holds the aggregate of its file and 2025, whose load
\* failed, an empty one
C26_Witness ==
    /\ call.op = "init"
    /\ InitDone
    /\ loads[1].pc["2024"].at = "loaded"
    /\ IsAggregateOf(crimeDataByYear["2024"], FileRows(1, "2024"))
    /\ loads[1].pc["2025"].at = "failed"
    /\ DOMAIN crimeDataByYear["2025"] = {}

----------------------------------------------------------------------------
(* The hour-window loop: termination and comparison with the unwindowed count *)

\* C27: for startHour and endHour integers in 0..23 the hour-window loop ends,
\* having visited at most 24 hours.
C27_HourLoopTerminates ==
    (SumDone /\ InRangeHour(call.startHour) /\ InRangeHour(call.endHour)) =>
        /\ ret.status = "returned"
        /\ LET visited == hoursVisited(call.startHour.val, call.endHour.val, <<>>)
           IN /\ visited.status = "returned"
              /\ Len(visited.value) <= 24

\* the window (23, 22) over a histogram: all 24 hours visited, the last hour
\* first
C27_Witness ==
    /\ SumDone
    /\ CalledHist = ExampleHist
    /\ call.startHour = Num(23) /\ call.endHour = Num(22)
    /\ ret = Return(11)
    /\ Len(hoursVisited(23, 22, <<>>).value) = 24

\* what the same query returns without an hour window
UnwindowedCount ==
    sumIncidentsForNeighborhood(crimeDataByYear, call.nb, call.year, call.crimeType,
                                Null, Null).value

C28_WindowNeverExceedsTotalOfAll ==
    (SumDone /\ InRangeHour(call.startHour) /\ InRangeHour(call.endHour)
        /\ call.crimeType = "all") =>
        ret.value <= UnwindowedCount

----------------------------------------------------------------------------
(* ObserveVanApp.sendChatMessage and addChatMessage.  An element of the chat *)
(* is a record of its id (the number in `msg-${Date.now()}`), its role, its *)
(* content and `node`, which tells the element objects apart: the call that *)
(* created it and what for.                                                 *)

ThinkingText == <<"Analyzing data and preparing response...">>
SorryText == <<"Sorry, I encountered an error. Please try again.">>

\* String.prototype.trim: the blank tokens at both ends dropped
trim(s) ==
    LET inked == {k \in 1..Len(s) : s[k] # " "}
    IN IF inked = {} THEN <<>>
       ELSE SubSeq(s, CHOOSE k \in inked : \A j \in inked : k <= j,
                      CHOOSE k \in inked : \A j \in inked : k >= j)

\* addChatMessage(role, content) at the time clock: the id is taken from the
\* clock, formatChatMessage calls content.split (a TypeError when content is not
\* a string), the element is appended and its id returned
addChatMessage(messages, role, content, clock, node) ==
    IF content.type # "string"
    THEN Throw(TypeError(<<"Cannot read properties of undefined (reading 'split')">>))
    ELSE Return([messages |-> Append(messages, [id |-> clock, role |-> role,
                                                content |-> content.val, node |-> node]),
                 messageId |-> clock])

\* `const el = document.getElementById(id); if (el) el.remove();`: the first
\* element in document order that has the id is removed
removeById(messages, id) ==
    LET having == {k \in 1..Len(messages) : messages[k].id = id}
    IN IF having = {} THEN messages
       ELSE Bind(CHOOSE k \in having : \A j \in having : k <= j,
                 LAMBDA first : SubSeq(messages, 1, first - 1)
                                   \o SubSeq(messages, first + 1, Len(messages)))

Node(c, kind) == [by |-> c, kind |-> kind]

\* sendChatMessage of the c-th call after `await GeminiAI.sendMessage(message)`
\* gave response: the try block, the catch block when the try block throws, the
\* chat they leave
chatAfterResponse(messages, thinkingId, response, clock, c) ==
    Bind(removeById(messages, thinkingId),
         LAMBDA cleared :
            IF response.success
            THEN Bind(addChatMessage(cleared, "assistant", response.message, clock,
                                     Node(c, "reply")),
                      LAMBDA added :
                         IF added.status = "returned" THEN added.value.messages
                         ELSE addChatMessage(removeById(cleared, thinkingId), "assistant",
                                             Str(SorryText), clock,
                                             Node(c, "reply")).value.messages)
            ELSE addChatMessage(cleared, "assistant",
                                Str(<<"Warning: ">> \o response.message.val), clock,
                                Node(c, "reply")).value.messages)

\* the calls of sendChatMessage waiting for sendMessage
Awaiting == {c \in 1..Len(chats) : chats[c].pc = "awaiting"}

\* the result sendMessage gave to its n-th call
ResultOf(n) == (CHOOSE r \in {ret[k] : k \in 1..Len(ret)} : r.n = n).value

----------------------------------------------------------------------------
(* A chat: up to MaxChats messages sent with the Enter key, which works     *)
(* whether or not the button is disabled; the clock goes up to MaxClock.    *)

MaxChats == 2
MaxClock == 2

ChatInputs == {Str(<<" ">>), Str(<<"hi">>), Str(<<" ", "is my route safe?", " ">>)}

\* what the API answers to a call
SendOutcomes ==
    {Answered(1), Textless,
     [fetch |-> "rejects", json |-> Rejects],
     [fetch |-> "notOk", json |-> Resolves([error |-> [message |-> Str(<<"API key not valid">>)]])]}

InitSend ==
    /\ ChatIdle
    /\ crimeDataByYear = <<>>
    /\ neighborhoodCoordinates = <<>>
    /\ lastLayer = Null
    /\ loads = <<>>
    /\ call \in {[op |-> "sendChatMessage", apiKey |-> k, outcomes |-> s] :
                    k \in {Str(<<>>), Str(<<"key">>)},
                    s \in [1..MaxChats -> SendOutcomes]}
    /\ ret = <<>>

\* the user types into the input, which holds no text yet
TypeMessage ==
    /\ call.op = "sendChatMessage"
    /\ Len(chats) < MaxChats
    /\ trim(chatInput.val) = <<>>
    /\ chatInput' \in ChatInputs
    /\ UNCHANGED <<crimeDataByYear, neighborhoodCoordinates, lastLayer, loads, call, ret,
                   conversationHistory, sends, chatMessages, sendBtn, chats, now>>

\* a millisecond passes
Tick ==
    /\ call.op = "sendChatMessage"
    /\ now < MaxClock
    /\ now' = now + 1
    /\ UNCHANGED <<crimeDataByYear, neighborhoodCoordinates, lastLayer, loads, call, ret,
                   conversationHistory, sends, chatInput, chatMessages, sendBtn, chats>>

\* sendChatMessage() up to `await GeminiAI.sendMessage(message)`, or to its
\* return when the input is blank; elapsed is the time between its two
\* addChatMessage calls
SendChatMessage ==
    /\ call.op = "sendChatMessage"
    /\ Len(chats) < MaxChats
    /\ chatInput.val # <<>>
    /\ \E elapsed \in {0, 1} :
          /\ now + elapsed <= MaxClock
          /\ LET message == trim(chatInput.val)
                 c == Len(chats) + 1
                 withUser == addChatMessage(chatMessages, "user", Str(message), now,
                                            Node(c, "user")).value
                 withThinking == addChatMessage(withUser.messages, "assistant",
                                                Str(ThinkingText), now + elapsed,
                                                Node(c, "thinking")).value
             IN IF message = <<>>
                THEN /\ chats' = Append(chats, [message |-> message, pc |-> "done"])
                     /\ UNCHANGED <<conversationHistory, sends, ret, chatInput,
                                    chatMessages, sendBtn, now>>
                ELSE /\ chatMessages' = withThinking.messages
                     /\ chatInput' = Str(<<>>)
                     /\ sendBtn' = [disabled |-> TRUE]
                     /\ now' = now + elapsed
                     /\ sendMessageCalled(Str(message))
                     /\ chats' = Append(chats, [message |-> message, pc |-> "awaiting",
                                                thinkingId |-> withThinking.messageId,
                                                send |-> Len(sends) + 1])
    /\ UNCHANGED <<crimeDataByYear, neighborhoodCoordinates, lastLayer, loads, call>>

\* sendChatMessage goes on after its await and runs to its end
ChatResumes ==
    \E c \in Awaiting :
        /\ sends[chats[c].send].pc = "done"
        /\ chatMessages' = chatAfterResponse(chatMessages, chats[c].thinkingId,
                                             ResultOf(chats[c].send), now, c)
        /\ sendBtn' = [disabled |-> FALSE]
        /\ chats' = [chats EXCEPT ![c].pc = "done"]
        /\ UNCHANGED <<crimeDataByYear, neighborhoodCoordinates, lastLayer, loads, call, ret,
                       conversationHistory, sends, chatInput, now>>

NextSend ==
    TypeMessage \/ Tick \/ SendChatMessage \/ ApiFetchSettles \/ ApiJsonSettles \/ ChatResumes

SpecSend == InitSend /\ [][NextSend]_vars

\* the c-th call of sendChatMessage ends in this step
ChatCompletes(c) == chats[c].pc = "awaiting" /\ chats'[c].pc = "done"

\* the chat holds the element the c-th call created as `kind`
InChat(messages, c, kind) == \E k \in 1..Len(messages) : messages[k].node = Node(c, kind)

\* C30: when a sendChatMessage call with a non-empty input completes, the
\* thinking indicator it added is no longer in the chat, the user's message
\* it added still is, and the send button is enabled; also when the two were
\* created in the same clock tick and when two sends overlap.
C30_IndicatorRemovedMessageKept ==
    [][call.op = "sendChatMessage" =>
        \A c \in 1..Len(chats) :
            ChatCompletes(c) =>
                /\ ~InChat(chatMessages', c, "thinking")
                /\ InChat(chatMessages', c, "user")
                /\ ~sendBtn'.disabled]_vars

\* the same, of the calls that complete while their two elements are in the
\* chat and no two elements of the chat have the same id
C30_IndicatorRemovedWhenIdsDiffer ==
    [][call.op = "sendChatMessage" =>
        \A c \in 1..Len(chats) :
            (/\ ChatCompletes(c)
             /\ InChat(chatMessages, c, "user")
             /\ InChat(chatMessages, c, "thinking")
             /\ \A j, k \in 1..Len(chatMessages) :
                   chatMessages[j].id = chatMessages[k].id => j = k) =>
                /\ ~InChat(chatMessages', c, "thinking")
                /\ InChat(chatMessages', c, "user")
                /\ ~sendBtn'.disabled]_vars

====
